---- MODULE Spec2Model ----
(***************************************************************************)
(* Verification model of the docx AIGC-risk agent:                         *)
(*   - docx/xmlText      : encodeXmlText / decodeXmlText                   *)
(*   - docx/documentXml  : splitDocumentXmlIntoParts, extractParagraphText *)
(*   - docx/patcher      : patchDocxParagraphs, replaceParagraphTextInXml  *)
(*   - analysis/detector : synergyBonus, riskLevel, detectAigcRisk         *)
(*   - billing/fileLedger: ensureAccount, topup, charge, refund            *)
(*   - server/sessionStore and server/routes/api: upload, rewrite,         *)
(*     recheck, chat, chat apply and export on the sessions of the store   *)
(*                                                                         *)
(* A string is a sequence of symbols.  A symbol is either one character    *)
(* ("a", "&", "$", ...) or one complete markup tag ("<w:p>", "</w:t>").    *)
(* The regular expressions of the code only ever match whole tags, so a    *)
(* tag is the unit at which they are modelled; text is kept character by   *)
(* character because escaping and the $ patterns of String.replace work  *)
(* on characters.                                                          *)
(***************************************************************************)
EXTENDS Integers, Sequences, FiniteSets, TLC

VARIABLES
    xmlIn,          \* xmlText: the string handed to encodeXmlText
    xmlEncoded,     \* xmlText: encodeXmlText(xmlIn)
    xmlDecoded,     \* xmlText: decodeXmlText(xmlEncoded)
    xmlPc,          \* xmlText: "start" | "encoded" | "decoded" ("idle" when unused)
    originalDocx,   \* docx: the uploaded container
    replacements,   \* docx: the ParagraphReplacementMap handed to patchDocxParagraphs
    parsed,         \* docx: result of parseDocx(originalDocx)
    patched,        \* docx: result of patchDocxParagraphs(originalDocx, replacements)
    reparsed,       \* docx: result of parseDocx on the patched container
    docxPc,         \* docx: "uploaded" | "parsed" | "patched" | "reparsed" | "failed"
    detectInput,    \* detector: the paragraphs handed to detectAigcRisk
    report,         \* detector: the DocumentReport it returned
    detectPc,       \* detector: "start" | "done"
    ledger,         \* billing: the state of the FileLedger (accounts, transactions)
    ledgerCall,     \* billing: the last call made on the ledger and the error it threw
    sessions,       \* server: the session store, a record per session id
    upload,         \* server: the POST /upload request in flight (its locals and position)
    requests        \* server: the requests on a session, each with its locals and position

xmlVars == <<xmlIn, xmlEncoded, xmlDecoded, xmlPc>>
docxVars == <<originalDocx, replacements, parsed, patched, reparsed, docxPc>>
detectVars == <<detectInput, report, detectPc>>
ledgerVars == <<ledger, ledgerCall>>
serverVars == <<sessions, upload, requests>>
vars == <<xmlVars, docxVars, detectVars, ledgerVars, serverVars>>

\* what the actions of one component leave alone
nonXmlVars == <<docxVars, detectVars, ledgerVars, serverVars>>
nonDocxVars == <<xmlVars, detectVars, ledgerVars, serverVars>>
nonDetectVars == <<xmlVars, docxVars, ledgerVars, serverVars>>
nonLedgerVars == <<xmlVars, docxVars, detectVars, serverVars>>
\* what the requests of the server leave alone
nonServerVars == <<xmlVars, docxVars, detectVars>>

InvalidDocx == "Invalid docx: missing word/document.xml"

(***************************************************************************)
(* Sequence helpers                                                        *)
(***************************************************************************)
RECURSIVE Flatten(_)
Flatten(ss) == IF ss = <<>> THEN <<>> ELSE Head(ss) \o Flatten(Tail(ss))

Drop(x, n) == SubSeq(x, n + 1, Len(x))

Take(x, n) == SubSeq(x, 1, n)

StartsAt(x, i, pat) ==
    /\ i + Len(pat) - 1 <= Len(x)
    /\ \A k \in 1..Len(pat) : x[i + k - 1] = pat[k]

\* least j in i..Len(x) with x[j] \in S, or 0
IndexIn(x, i, S) ==
    LET hits == {j \in i..Len(x) : x[j] \in S}
    IN  IF hits = {} THEN 0 ELSE CHOOSE j \in hits : \A k \in hits : j <= k

\* String.prototype.indexOf(pat): least i where pat occurs, or 0
IndexOfSeq(x, pat) ==
    LET hits == {i \in 1..(Len(x) - Len(pat) + 1) : StartsAt(x, i, pat)}
    IN  IF hits = {} THEN 0 ELSE CHOOSE i \in hits : \A k \in hits : i <= k

\* input.replace(/pat/g, rep) for a literal pattern and a replacement without $
RECURSIVE ReplaceAll(_, _, _)
ReplaceAll(x, pat, rep) ==
    IF Len(x) < Len(pat) THEN x
    ELSE IF StartsAt(x, 1, pat) THEN rep \o ReplaceAll(Drop(x, Len(pat)), pat, rep)
    ELSE <<Head(x)>> \o ReplaceAll(Tail(x), pat, rep)

(***************************************************************************)
(* docx/xmlText                                                            *)
(***************************************************************************)
EntLt == <<"&", "l", "t", ";">>
EntGt == <<"&", "g", "t", ";">>
EntQuot == <<"&", "q", "u", "o", "t", ";">>
EntApos == <<"&", "a", "p", "o", "s", ";">>
EntAmp == <<"&", "a", "m", "p", ";">>

\* variant: &amp; is decoded first instead of last
decodeAmpFirst(input) ==
    ReplaceAll(ReplaceAll(ReplaceAll(ReplaceAll(ReplaceAll(input,
        EntAmp, <<"&">>), EntLt, <<"<">>), EntGt, <<">">>), EntQuot, <<"\"">>), EntApos, <<"'">>)

decodeXmlText(input) ==
    ReplaceAll(ReplaceAll(ReplaceAll(ReplaceAll(ReplaceAll(input,
        EntLt, <<"<">>), EntGt, <<">">>), EntQuot, <<"\"">>), EntApos, <<"'">>), EntAmp, <<"&">>)

encodeXmlText(input) ==
    ReplaceAll(ReplaceAll(ReplaceAll(ReplaceAll(ReplaceAll(input,
        <<"&">>, EntAmp), <<"<">>, EntLt), <<">">>, EntGt), <<"\"">>, EntQuot), <<"'">>, EntApos)

(***************************************************************************)
(* docx/documentXml                                                        *)
(***************************************************************************)
ParaOpenTags == {"<w:p>"}                 \* what /<w:p\b/ matches; "<w:pPr>" is not one
ParaCloseTags == {"</w:p>"}
TOpenTags == {"<w:t>", "<w:t xml:space=\"preserve\">"}   \* what /<w:t\b[^>]*>/ matches
TCloseTags == {"</w:t>"}
Whitespace == {" ", "\t", "\n"}

\* out.replace(/[\u00A0\s]+$/g, ""): no-break space is not in the alphabet
RECURSIVE TrimEnd(_)
TrimEnd(x) ==
    IF x # <<>> /\ x[Len(x)] \in Whitespace THEN TrimEnd(Take(x, Len(x) - 1)) ELSE x

\* the while-loop of extractParagraphText, scanning from position i
RECURSIVE ExtractScan(_, _)
ExtractScan(x, i) ==
    IF i > Len(x) THEN <<>>
    ELSE LET close == IndexIn(x, i + 1, TCloseTags)
         IN  IF x[i] \in TOpenTags /\ close # 0
                 THEN decodeXmlText(SubSeq(x, i + 1, close - 1)) \o ExtractScan(x, close + 1)
             ELSE IF x[i] = "<w:tab/>" THEN <<"\t">> \o ExtractScan(x, i + 1)
             ELSE IF x[i] \in {"<w:br/>", "<w:cr/>"} THEN <<"\n">> \o ExtractScan(x, i + 1)
             ELSE ExtractScan(x, i + 1)

extractParagraphText(paragraphXml) == TrimEnd(ExtractScan(paragraphXml, 1))

Count(x, S) == Cardinality({i \in 1..Len(x) : x[i] \in S})

Max(a, b) == IF a >= b THEN a ELSE b

Min(a, b) == IF a <= b THEN a ELSE b

\* variant: the close tags are not counted
updateDepthOpensOnly(xmlChunk, tcDepth) == tcDepth + Count(xmlChunk, {"<w:tc>"})

\* every open tag of the fragment is counted first, then every close tag
updateTableCellDepth(xmlChunk, tcDepth) ==
    Max(0, tcDepth + Count(xmlChunk, {"<w:tc>"}) - Count(xmlChunk, {"</w:tc>"}))

\* variant: ids counted from 1
ParagraphIdFromOne(paraIndex) == "p-" \o ToString(paraIndex + 1)

ParagraphId(paraIndex) == "p-" \o ToString(paraIndex)

Chunk(xml) == [type |-> "chunk", xml |-> xml]

ParagraphPart(paraIndex, tcDepth, paraXml) ==
    [type |-> "paragraph",
     paragraph |-> [id |-> ParagraphId(paraIndex),
                    index |-> paraIndex,
                    kind |-> IF tcDepth > 0 THEN "tableCellParagraph" ELSE "paragraph",
                    text |-> extractParagraphText(paraXml),
                    xml |-> paraXml]]

\* the while-loop of splitDocumentXmlIntoParts; lastIndex is the 1-based
\* position of the first symbol not yet consumed
RECURSIVE SplitLoop(_, _, _, _)
SplitLoop(x, lastIndex, paraIndex, tcDepth) ==
    LET opens == {i \in lastIndex..Len(x) : x[i] \in ParaOpenTags /\ IndexIn(x, i + 1, ParaCloseTags) # 0}
    IN  IF opens = {}
            THEN (IF lastIndex <= Len(x) THEN <<Chunk(SubSeq(x, lastIndex, Len(x)))>> ELSE <<>>)
        ELSE LET start == CHOOSE i \in opens : \A k \in opens : i <= k
                 end == IndexIn(x, start + 1, ParaCloseTags)
                 before == SubSeq(x, lastIndex, start - 1)
                 depth == IF before # <<>> THEN updateTableCellDepth(before, tcDepth) ELSE tcDepth
                 paraXml == SubSeq(x, start, end)
             IN  (IF before # <<>> THEN <<Chunk(before)>> ELSE <<>>)
                 \o <<ParagraphPart(paraIndex, depth, paraXml)>>
                 \o SplitLoop(x, end + 1, paraIndex + 1, updateTableCellDepth(paraXml, depth))

RECURSIVE ParagraphsOf(_)
ParagraphsOf(ps) ==
    IF ps = <<>> THEN <<>>
    ELSE (IF Head(ps).type = "paragraph" THEN <<Head(ps).paragraph>> ELSE <<>>) \o ParagraphsOf(Tail(ps))

\* variant: the markup after the last block is not kept
splitWithoutTail(x) ==
    LET ps == SplitLoop(x, 1, 0, 0)
        kept == IF ps # <<>> /\ ps[Len(ps)].type = "chunk" THEN Take(ps, Len(ps) - 1) ELSE ps
    IN  [parts |-> kept, paragraphs |-> ParagraphsOf(kept)]

splitDocumentXmlIntoParts(x) ==
    LET ps == SplitLoop(x, 1, 0, 0)
    IN  [parts |-> ps, paragraphs |-> ParagraphsOf(ps)]

\* a docx container: a zip that may or may not hold word/document.xml
Docx(xml) == [hasDocumentXml |-> TRUE, documentXml |-> xml]

EmptyZip == [hasDocumentXml |-> FALSE, documentXml |-> <<>>]

NoParse == [error |-> "", parts |-> <<>>, paragraphs |-> <<>>]

\* parseDocx: throws when word/document.xml is missing
parseDocx(buffer) ==
    IF ~buffer.hasDocumentXml THEN [NoParse EXCEPT !.error = InvalidDocx]
    ELSE LET r == splitDocumentXmlIntoParts(buffer.documentXml)
         IN  [error |-> "", parts |-> r.parts, paragraphs |-> r.paragraphs]

(***************************************************************************)
(* docx/patcher                                                            *)
(***************************************************************************)
\* the grave-accent character U+0060, which a TLA+ string cannot hold
Backtick == "U+0060"

Digits == <<"0", "1", "2", "3", "4", "5", "6", "7", "8", "9">>

IsDigit(c) == \E d \in 1..10 : Digits[d] = c

DigitVal(c) == (CHOOSE d \in 1..10 : Digits[d] = c) - 1

\* GetSubstitution of String.prototype.replace: expands the $ patterns of
\* the replacement template.  matched is the matched substring, position the
\* 1-based start of the match in str, captures the capture groups of the match
\* (empty for a string pattern); there are no named groups.
RECURSIVE GetSubstitution(_, _, _, _, _)
GetSubstitution(template, matched, str, position, captures) ==
    LET m == Len(captures)
        rest(n) == GetSubstitution(Drop(template, n), matched, str, position, captures)
    IN  IF template = <<>> THEN <<>>
        ELSE IF template[1] # "$" \/ Len(template) = 1 THEN <<template[1]>> \o rest(1)
        ELSE IF template[2] = "$" THEN <<"$">> \o rest(2)
        ELSE IF template[2] = "&" THEN matched \o rest(2)
        ELSE IF template[2] = Backtick THEN Take(str, position - 1) \o rest(2)
        ELSE IF template[2] = "'" THEN Drop(str, position + Len(matched) - 1) \o rest(2)
        ELSE IF IsDigit(template[2])
            THEN LET d1 == DigitVal(template[2])
                     two == Len(template) >= 3 /\ IsDigit(template[3])
                     nn == IF two THEN 10 * d1 + DigitVal(template[3]) ELSE 0
                 IN  IF two /\ nn >= 1 /\ nn <= m THEN captures[nn] \o rest(3)
                     ELSE IF d1 >= 1 /\ d1 <= m THEN captures[d1] \o rest(2)
                     ELSE <<"$">> \o rest(1)
        ELSE <<"$">> \o rest(1)

\* str.replace(pattern, template) for a string pattern: first occurrence only
ReplaceFirst(str, pattern, template) ==
    LET pos == IndexOfSeq(str, pattern)
    IN  IF pos = 0 THEN str
        ELSE Take(str, pos - 1)
             \o GetSubstitution(template, pattern, str, pos, <<>>)
             \o Drop(str, pos + Len(pattern) - 1)

\* Array.from(paragraphXml.matchAll(/<w:t\b([^>]*)>([\s\S]*?)<\/w:t>/g)) from position i:
\* each match is [tag |-> the open tag (it carries group 1), full |-> m[0]]
RECURSIVE TextLeafMatches(_, _)
TextLeafMatches(x, i) ==
    IF i > Len(x) THEN <<>>
    ELSE LET close == IndexIn(x, i + 1, TCloseTags)
         IN  IF x[i] \in TOpenTags /\ close # 0
                 THEN <<[tag |-> x[i], full |-> SubSeq(x, i, close)]>> \o TextLeafMatches(x, close + 1)
             ELSE TextLeafMatches(x, i + 1)

PreserveTag == "<w:t xml:space=\"preserve\">"

\* the first leaf keeps its attributes and gets xml:space="preserve" unless it has xml:space already
FirstTag(tag) == IF tag = PreserveTag THEN tag ELSE PreserveTag

\* step 2 of replaceParagraphTextInXml: blank matches[i..] one by one
RECURSIVE ClearRest(_, _, _)
ClearRest(out, matches, i) ==
    IF i > Len(matches) THEN out
    ELSE ClearRest(ReplaceFirst(out, matches[i].full, <<matches[i].tag, "</w:t>">>), matches, i + 1)

\* the branch for a paragraph without any text leaf
InsertRun(paragraphXml, nextText) ==
    LET pPrOpen == {i \in 1..Len(paragraphXml) :
                        paragraphXml[i] = "<w:pPr>" /\ IndexIn(paragraphXml, i + 1, {"</w:pPr>"}) # 0}
        hasPPr == pPrOpen # {}
        start == IF hasPPr THEN CHOOSE i \in pPrOpen : \A k \in pPrOpen : i <= k
                 ELSE IndexIn(paragraphXml, 1, ParaOpenTags)
        end == IF hasPPr THEN IndexIn(paragraphXml, start + 1, {"</w:pPr>"}) ELSE start
        run == <<"<w:r>", PreserveTag>> \o nextText \o <<"</w:t>", "</w:r>">>
        matched == SubSeq(paragraphXml, start, end)
    IN  IF start = 0 THEN paragraphXml
        ELSE Take(paragraphXml, start - 1)
             \o GetSubstitution(<<"$", "1">> \o run, matched, paragraphXml, start, <<matched>>)
             \o Drop(paragraphXml, end)

\* variant: the replacement text is written without escaping
replaceWithoutEncoding(paragraphXml, nextTextRaw) ==
    LET nextText == nextTextRaw
        matches == TextLeafMatches(paragraphXml, 1)
    IN  IF matches = <<>> THEN InsertRun(paragraphXml, nextText)
        ELSE LET first == matches[1]
                 out == ReplaceFirst(paragraphXml, first.full,
                                     <<FirstTag(first.tag)>> \o nextText \o <<"</w:t>">>)
             IN  ClearRest(out, matches, 2)

replaceParagraphTextInXml(paragraphXml, nextTextRaw) ==
    LET nextText == encodeXmlText(nextTextRaw)
        matches == TextLeafMatches(paragraphXml, 1)
    IN  IF matches = <<>> THEN InsertRun(paragraphXml, nextText)
        ELSE LET first == matches[1]
                 out == ReplaceFirst(paragraphXml, first.full,
                                     <<FirstTag(first.tag)>> \o nextText \o <<"</w:t>">>)
             IN  ClearRest(out, matches, 2)

\* parts.map(...) of patchDocxParagraphs, for one part
PatchPart(p, repl) ==
    IF p.type # "paragraph" THEN p
    ELSE IF p.paragraph.id \notin DOMAIN repl THEN p
    ELSE [p EXCEPT !.paragraph.xml = replaceParagraphTextInXml(p.paragraph.xml, repl[p.paragraph.id])]

PartXml(p) == IF p.type = "chunk" THEN p.xml ELSE p.paragraph.xml

JoinParts(ps) == Flatten([i \in 1..Len(ps) |-> PartXml(ps[i])])

NoPatch == [error |-> "", docx |-> EmptyZip]

\* variant: a key that names no block is rejected
patchRejectingUnknownIds(buffer, repl) ==
    IF ~buffer.hasDocumentXml THEN [NoPatch EXCEPT !.error = InvalidDocx]
    ELSE LET r == splitDocumentXmlIntoParts(buffer.documentXml)
             ps == r.parts
             ids == {r.paragraphs[i].id : i \in 1..Len(r.paragraphs)}
             newParts == [i \in 1..Len(ps) |-> PatchPart(ps[i], repl)]
         IN  IF DOMAIN repl \subseteq ids THEN [error |-> "", docx |-> Docx(JoinParts(newParts))]
             ELSE [NoPatch EXCEPT !.error = "unknown paragraph id"]

\* patchDocxParagraphs: the container it returns, or the error it throws
patchDocxParagraphs(buffer, repl) ==
    IF ~buffer.hasDocumentXml THEN [NoPatch EXCEPT !.error = InvalidDocx]
    ELSE LET ps == splitDocumentXmlIntoParts(buffer.documentXml).parts
             newParts == [i \in 1..Len(ps) |-> PatchPart(ps[i], repl)]
         IN  [error |-> "", docx |-> Docx(JoinParts(newParts))]

(***************************************************************************)
(* JavaScript numbers: IEEE-754 binary64, round to nearest, ties to even.  *)
(* A positive number is [m |-> 53 bits, most significant first and         *)
(* m[1] = 1, e |-> exponent], with value (the integer m) * 2^e; zero has    *)
(* m = <<>>.  Only the operations detectAigcRisk uses are modelled, on     *)
(* the non-negative values it produces.                                    *)
(***************************************************************************)
MantissaBits == 53

\* extra quotient bits: enough for a divisor below 2^23
DivisionExtraBits == 25

Zero == [m |-> <<>>, e |-> 0]

RECURSIVE IntToBits(_)
IntToBits(n) == IF n = 0 THEN <<>> ELSE Append(IntToBits(n \div 2), n % 2)

RECURSIVE BitsToInt(_)
BitsToInt(b) == IF b = <<>> THEN 0 ELSE 2 * BitsToInt(Take(b, Len(b) - 1)) + b[Len(b)]

Zeros(n) == [i \in 1..n |-> 0]

StripZeros(b) ==
    LET first == IndexIn(b, 1, {1})
    IN  IF first = 0 THEN <<>> ELSE SubSeq(b, first, Len(b))

\* bits + 1
Increment(b) ==
    LET zeros == {i \in 1..Len(b) : b[i] = 0}
        last == IF zeros = {} THEN 0 ELSE CHOOSE i \in zeros : \A k \in (i + 1)..Len(b) : b[k] = 1
    IN  IF last = 0 THEN <<1>> \o Zeros(Len(b))
        ELSE [i \in 1..Len(b) |-> IF i < last THEN b[i] ELSE IF i = last THEN 1 ELSE 0]

\* the number with the bits r of a rounded significand of the n bits of an
\* integer times 2^e: rounding up may have carried into a 54th bit
Renormalise(r, n, e) ==
    IF Len(r) > MantissaBits
        THEN [m |-> Take(r, MantissaBits), e |-> e + (n - MantissaBits) + 1]
        ELSE [m |-> r, e |-> e + (n - MantissaBits)]

\* round to nearest, ties to even: the first MantissaBits bits of b, plus one
\* when the guard bit is set and the rest (or the last kept bit) is not zero
RoundBits(b, e, sticky) ==
    LET up == /\ b[MantissaBits + 1] = 1
              /\ \/ sticky
                 \/ \E i \in (MantissaBits + 2)..Len(b) : b[i] = 1
                 \/ b[MantissaBits] = 1
    IN  Renormalise(IF up THEN Increment(Take(b, MantissaBits)) ELSE Take(b, MantissaBits), Len(b), e)

\* the number with the bits b (the first one set, or none) times 2^e
NumberOfBits(b, e, sticky) ==
    IF Len(b) = 0 THEN Zero
    ELSE IF Len(b) <= MantissaBits
        THEN [m |-> b \o Zeros(MantissaBits - Len(b)), e |-> e - (MantissaBits - Len(b))]
    ELSE RoundBits(b, e, sticky)

\* the binary64 nearest to (the integer bits) * 2^e, plus a non-zero amount
\* below one unit of the last bit when sticky
RoundToNumber(bits, e, sticky) == NumberOfBits(StripZeros(bits), e, sticky)

NumberOfInt(n) == RoundToNumber(IntToBits(n), 0, FALSE)

\* the arithmetic below walks a bit string ChunkBits bits at a time
ChunkBits == 8

ChunkVal(b, lo, hi) == BitsToInt(SubSeq(b, lo, hi))

\* v as exactly w bits
PadBits(v, w) == [i \in 1..w |-> (v \div 2 ^ (w - i)) % 2]

\* bits 1..hi of b times n, plus carry: chunk by chunk from the low end
RECURSIVE MulChunks(_, _, _, _)
MulChunks(b, hi, n, carry) ==
    IF hi = 0 THEN IntToBits(carry)
    ELSE LET lo == Max(1, hi - ChunkBits + 1)
             w == hi - lo + 1
             v == ChunkVal(b, lo, hi) * n + carry
         IN  MulChunks(b, lo - 1, n, v \div 2 ^ w) \o PadBits(v % 2 ^ w, w)

\* x * n for an integer n, 0 <= n < 2^23
NumberTimesInt(x, n) ==
    IF x = Zero \/ n = 0 THEN Zero
    ELSE RoundToNumber(MulChunks(x.m, Len(x.m), n, 0), x.e, FALSE)

\* long division by n of bits lo.. of b, given the remainder r left by the
\* higher bits: the quotient bits (appended to acc) and the final remainder
RECURSIVE DivChunks(_, _, _, _, _)
DivChunks(b, lo, n, r, acc) ==
    IF lo > Len(b) THEN [q |-> acc, r |-> r]
    ELSE LET hi == Min(Len(b), lo + ChunkBits - 1)
             w == hi - lo + 1
             v == r * 2 ^ w + ChunkVal(b, lo, hi)
         IN  DivChunks(b, hi + 1, n, v % n, acc \o PadBits(v \div n, w))

\* x / n for an integer n, 0 < n < 2^23
NumberOverInt(x, n) ==
    IF x = Zero THEN Zero
    ELSE IF n = 1 THEN x
    ELSE LET d == DivChunks(x.m \o Zeros(DivisionExtraBits), 1, n, 0, <<>>)
         IN  RoundToNumber(d.q, x.e - DivisionExtraBits, d.r # 0)

\* bits 1..hi of a plus bits 1..hi of b, plus carry
RECURSIVE AddChunks(_, _, _, _)
AddChunks(a, b, hi, carry) ==
    IF hi = 0 THEN IntToBits(carry)
    ELSE LET lo == Max(1, hi - ChunkBits + 1)
             w == hi - lo + 1
             v == ChunkVal(a, lo, hi) + ChunkVal(b, lo, hi) + carry
         IN  AddChunks(a, b, lo - 1, v \div 2 ^ w) \o PadBits(v % 2 ^ w, w)

\* x + y
NumberPlus(x, y) ==
    IF x = Zero THEN y
    ELSE IF y = Zero THEN x
    ELSE LET e == Min(x.e, y.e)
             a == x.m \o Zeros(x.e - e)
             b == y.m \o Zeros(y.e - e)
             n == Max(Len(a), Len(b))
         IN  RoundToNumber(AddChunks(Zeros(n - Len(a)) \o a, Zeros(n - Len(b)) \o b, n, 0), e, FALSE)

\* Math.round(x): the integer part, plus one when the fraction is >= 1/2
MathRound(x) ==
    IF x = Zero THEN 0
    ELSE IF x.e >= 0 THEN BitsToInt(x.m \o Zeros(x.e))
    ELSE IF -x.e > MantissaBits THEN 0
    ELSE LET intBits == MantissaBits + x.e
         IN  BitsToInt(Take(x.m, intBits)) + x.m[intBits + 1]

\* x < y: the numbers are normalised, so the exponent decides, then the bits
NumberLess(x, y) ==
    IF y = Zero THEN FALSE
    ELSE IF x = Zero THEN TRUE
    ELSE IF x.e # y.e THEN x.e < y.e
    ELSE \E i \in 1..MantissaBits :
            /\ x.m[i] < y.m[i]
            /\ \A k \in 1..(i - 1) : x.m[k] = y.m[k]

\* Math.min(x, y)
MathMin(x, y) == IF NumberLess(y, x) THEN y ELSE x

\* the number a decimal literal num/den denotes: the binary64 nearest to it
Literal(num, den) == NumberOverInt(NumberOfInt(num), den)

(***************************************************************************)
(* analysis/detector                                                       *)
(***************************************************************************)
clamp(n, min, max) == Min(max, Max(min, n))

\* variant: the high tier starts above 70
riskLevelAbove70(score) ==
    IF score > 70 THEN "high" ELSE IF score >= 35 THEN "medium" ELSE "low"

riskLevel(score) ==
    IF score >= 70 THEN "high" ELSE IF score >= 35 THEN "medium" ELSE "low"

Rule(signalId, category, score, minChars) ==
    [signalId |-> signalId, category |-> category, score |-> score, minChars |-> minChars]

\* the rules of detectAigcRisk in the order it evaluates them; minChars is the
\* charCount the rule's condition demands (1 where it demands none: every
\* rule needs some text to match)
Rules ==
    << Rule("lang_uniform_sentence", "languageStats", 15, 60),
       Rule("lang_ngram_repeat", "languageStats", 16, 1),
       Rule("lang_low_diversity", "languageStats", 12, 1),
       Rule("style_template_phrases", "styleHabits", 18, 1),
       Rule("style_connectives_dense", "styleHabits", 14, 1),
       Rule("style_abstract_dense", "styleHabits", 12, 40),
       Rule("logic_pronoun_dense", "logicCoherence", 10, 40),
       Rule("logic_topic_shift", "logicCoherence", 12, 50),
       Rule("veri_strong_claim_no_cite", "verifiability", 18, 1),
       Rule("veri_claim_no_cite_weak", "verifiability", 12, 1),
       Rule("veri_cite_imbalance", "verifiability", 16, 1),
       Rule("struct_list_like", "structureFormat", 12, 1),
       Rule("ai_opening_pattern", "aiPattern", 14, 1),
       Rule("ai_symmetric_structure", "aiPattern", 10, 1),
       Rule("ai_hollow_conclusion", "aiPattern", 12, 1),
       Rule("ai_long_homogeneous", "aiPattern", 10, 200),
       Rule("cog_low_density", "cognitiveFeatures", 14, 80),
       Rule("cog_low_entropy", "cognitiveFeatures", 12, 1),
       Rule("cog_connective_head_only", "cognitiveFeatures", 10, 1),
       Rule("cog_flat_structure", "cognitiveFeatures", 10, 1),
       Rule("ai_structural_isomorphism", "aiPattern", 12, 1) >>

RuleIds == 1..Len(Rules)

TopicShiftRule == 8

StrongClaimRule == 9

WeakClaimRule == 10

IsomorphismRule == 21

ConnectivesRule == 5

CiteImbalanceRule == 11

\* the rules whose condition the model computes from the features below;
\* the condition of any other rule is an input (p.conds)
FeatureRules ==
    {ConnectivesRule, TopicShiftRule, StrongClaimRule, WeakClaimRule, CiteImbalanceRule, IsomorphismRule}

Signal(r) == [signalId |-> Rules[r].signalId, category |-> Rules[r].category, score |-> Rules[r].score]

\* A paragraph p stands for one block and what extractFeatures and the
\* detector read off its text:
\*   len = text.length (charCount), head = text.trim().slice(0, 4),
\*   connSetCount = how many words of connSet text includes,
\*   tokens = the set of tokens longer than one character,
\*   connectiveCount, sentenceCount, strongClaimCount, citationMarkerCount,
\*   conds = the rules outside FeatureRules whose condition holds.

\* the literals 0.8, 0.08 and 0.3 of the rule conditions
ConnectiveDensityThreshold == Literal(8, 10)

TopicShiftThreshold == Literal(8, 100)

ClaimRatioThreshold == Literal(3, 10)

One == NumberOfInt(1)

\* t.slice(0, n)
Slice(t, n) == SubSeq(t, 1, Min(n, Len(t)))

\* the body of the window loop of detectStructuralIsomorphism, for the
\* window starting at position i: whether it adds its three indices
WindowIsomorphic(paragraphs, i) ==
    LET heads == [j \in i..(i + 2) |-> paragraphs[j].head]
        prefix2 == [j \in i..(i + 2) |-> Slice(heads[j], 2)]
    IN  \/ prefix2[i] = prefix2[i + 1] /\ prefix2[i + 1] = prefix2[i + 2] /\ Len(prefix2[i]) >= 2
        \/ \A j \in i..(i + 2) : paragraphs[j].connSetCount >= 2

\* variant: the loop stops one window early
isomorphismMissingLastWindow(paragraphs) ==
    IF Len(paragraphs) < 3 THEN {}
    ELSE UNION {IF WindowIsomorphic(paragraphs, i)
                    THEN {paragraphs[j].index : j \in i..(i + 2)} ELSE {} :
                i \in 1..(Len(paragraphs) - 3)}

detectStructuralIsomorphism(paragraphs) ==
    IF Len(paragraphs) < 3 THEN {}
    ELSE UNION {IF WindowIsomorphic(paragraphs, i)
                    THEN {paragraphs[j].index : j \in i..(i + 2)} ELSE {} :
                i \in 1..(Len(paragraphs) - 2)}

jaccard(a, b) ==
    IF a = {} \/ b = {} THEN Zero
    ELSE LET inter == Cardinality(a \cap b)
             union == Cardinality(a) + Cardinality(b) - inter
         IN  IF union # 0 THEN NumberOverInt(NumberOfInt(inter), union) ELSE Zero

\* variant: a missing neighbour counts as similarity 0
neighbourSimMissingZero(paragraphs, i, j) ==
    IF j \in 1..Len(paragraphs) THEN jaccard(paragraphs[Min(i, j)].tokens, paragraphs[Max(i, j)].tokens)
    ELSE Zero

\* simPrev (j = i - 1) and simNext (j = i + 1) of paragraph i
neighbourSim(paragraphs, i, j) ==
    IF j \in 1..Len(paragraphs) THEN jaccard(paragraphs[Min(i, j)].tokens, paragraphs[Max(i, j)].tokens)
    ELSE One

\* variant: the most similar neighbour decides
minSimAsMax(paragraphs, i) ==
    LET simPrev == neighbourSim(paragraphs, i, i - 1)
        simNext == neighbourSim(paragraphs, i, i + 1)
    IN  IF NumberLess(simPrev, simNext) THEN simNext ELSE simPrev

minSim(paragraphs, i) ==
    MathMin(neighbourSim(paragraphs, i, i - 1), neighbourSim(paragraphs, i, i + 1))

\* variant: the density must exceed 0.8
connectivesDenseAbove(f) ==
    LET connPer100 == IF f.len # 0 THEN NumberTimesInt(NumberOverInt(NumberOfInt(f.connectiveCount), f.len), 100)
                      ELSE Zero
    IN  f.connectiveCount >= 2 /\ NumberLess(ConnectiveDensityThreshold, connPer100)

connectivesDense(f) ==
    LET connPer100 == IF f.len # 0 THEN NumberTimesInt(NumberOverInt(NumberOfInt(f.connectiveCount), f.len), 100)
                      ELSE Zero
    IN  f.connectiveCount >= 2 /\ ~NumberLess(connPer100, ConnectiveDensityThreshold)

hasCitationMarker(f) == f.citationMarkerCount > 0

strongClaimNoCite(f) ==
    LET claimRatio == IF f.sentenceCount > 0 THEN NumberOverInt(NumberOfInt(f.strongClaimCount), f.sentenceCount)
                      ELSE Zero
    IN  NumberLess(ClaimRatioThreshold, claimRatio) /\ f.citationMarkerCount <= 1

\* variant: the weak tier is a separate if, not an else-if
weakClaimNoCiteWithoutElse(f) == f.strongClaimCount >= 1 /\ ~hasCitationMarker(f)

weakClaimNoCite(f) == ~strongClaimNoCite(f) /\ f.strongClaimCount >= 1 /\ ~hasCitationMarker(f)

\* rule r pushes its signal for paragraph i
Fires(r, paragraphs, i, isomorphicSet) ==
    LET f == paragraphs[i]
    IN  CASE r = ConnectivesRule -> connectivesDense(f)
          [] r = TopicShiftRule -> f.len >= 50 /\ NumberLess(minSim(paragraphs, i), TopicShiftThreshold)
          [] r = StrongClaimRule -> strongClaimNoCite(f)
          [] r = WeakClaimRule -> weakClaimNoCite(f)
          [] r = CiteImbalanceRule -> f.strongClaimCount >= 3 /\ f.citationMarkerCount <= 1
          [] r = IsomorphismRule -> f.index \in isomorphicSet
          [] OTHER -> r \in f.conds

RECURSIVE PushSignals(_, _, _, _)
PushSignals(r, paragraphs, i, isomorphicSet) ==
    IF r > Len(Rules) THEN <<>>
    ELSE (IF Fires(r, paragraphs, i, isomorphicSet) THEN <<Signal(r)>> ELSE <<>>)
         \o PushSignals(r + 1, paragraphs, i, isomorphicSet)

RECURSIVE SumScores(_)
SumScores(signals) == IF signals = <<>> THEN 0 ELSE Head(signals).score + SumScores(Tail(signals))

\* variant: the category bonus overwrites the count bonus
synergyBonusOverwritten(signals) ==
    LET n == Len(signals)
        categories == {signals[i].category : i \in 1..n}
        bonus == IF n >= 5 THEN 25 ELSE IF n >= 4 THEN 18 ELSE IF n >= 3 THEN 10 ELSE 0
    IN  IF Cardinality(categories) >= 3 THEN 8 ELSE bonus

\* variant: the 4-signal tier is missing
synergyBonusNoFour(signals) ==
    LET n == Len(signals)
        categories == {signals[i].category : i \in 1..n}
        bonus == IF n >= 5 THEN 25 ELSE IF n >= 3 THEN 10 ELSE 0
    IN  bonus + (IF Cardinality(categories) >= 3 THEN 8 ELSE 0)

synergyBonus(signals) ==
    LET n == Len(signals)
        categories == {signals[i].category : i \in 1..n}
        bonus == IF n >= 5 THEN 25 ELSE IF n >= 4 THEN 18 ELSE IF n >= 3 THEN 10 ELSE 0
    IN  bonus + (IF Cardinality(categories) >= 3 THEN 8 ELSE 0)

\* variant: the reduce callback returns the signal's score, not the running sum
ParagraphScoreLastOnly(signals) ==
    clamp((IF signals = <<>> THEN 0 ELSE signals[Len(signals)].score) + synergyBonus(signals), 0, 100)

\* baseScore, bonus and riskScore of one paragraph
ParagraphScore(signals) == clamp(SumScores(signals) + synergyBonus(signals), 0, 100)

\* the report of paragraph i
ParagraphReport(paragraphs, i, isomorphicSet) ==
    LET p == paragraphs[i]
        signals == PushSignals(1, paragraphs, i, isomorphicSet)
        riskScore == ParagraphScore(signals)
    IN  [paragraphId |-> p.id, index |-> p.index, kind |-> p.kind, len |-> p.len,
         riskScore |-> riskScore, riskLevel |-> riskLevel(riskScore), signals |-> signals]

\* paragraphs.map(...): the reports of the first k paragraphs
\* the reports of paragraphs lo..hi (the range is halved, which keeps the
\* evaluation of a long document shallow)
RECURSIVE MapRange(_, _, _, _)
MapRange(paragraphs, lo, hi, isomorphicSet) ==
    IF lo > hi THEN <<>>
    ELSE IF lo = hi THEN <<ParagraphReport(paragraphs, lo, isomorphicSet)>>
    ELSE MapRange(paragraphs, lo, (lo + hi) \div 2, isomorphicSet)
             \o MapRange(paragraphs, (lo + hi) \div 2 + 1, hi, isomorphicSet)

MapReports(paragraphs, k, isomorphicSet) == MapRange(paragraphs, 1, k, isomorphicSet)

\* the loop over paragraphReports: aiCharCount after the first k reports
\* one pass of the loop: aiCharCount after report r, given its value before
AiCharStep(before, r) ==
    IF r.riskScore >= 35
        THEN NumberPlus(before, NumberTimesInt(NumberOverInt(NumberOfInt(r.riskScore), 100), r.len))
        ELSE before

\* the passes todo.lo..todo.hi in order, from the value todo.before (the
\* range is halved and the value before the later half is computed first,
\* which keeps the evaluation of a long document shallow; the sums are
\* still made one report after the other)
RECURSIVE AiCharRange(_, _)
AiCharRange(reports, todo) ==
    IF todo.lo > todo.hi THEN todo.before
    ELSE IF todo.lo = todo.hi THEN AiCharStep(todo.before, reports[todo.lo])
    ELSE AiCharRange(reports,
             [lo |-> (todo.lo + todo.hi) \div 2 + 1, hi |-> todo.hi,
              before |-> AiCharRange(reports, [lo |-> todo.lo, hi |-> (todo.lo + todo.hi) \div 2,
                                               before |-> todo.before])])

AiCharCount(reports, k) == AiCharRange(reports, [lo |-> 1, hi |-> k, before |-> Zero])

RECURSIVE TotalCharRange(_, _, _)
TotalCharRange(reports, lo, hi) ==
    IF lo > hi THEN 0
    ELSE IF lo = hi THEN reports[lo].len
    ELSE TotalCharRange(reports, lo, (lo + hi) \div 2) + TotalCharRange(reports, (lo + hi) \div 2 + 1, hi)

\* allCharCount after the first k reports
TotalCharCount(reports, k) == TotalCharRange(reports, 1, k)

\* variant: every paragraph counts as AI text, whatever its score
OverallUngated(reports) ==
    LET total == TotalCharCount(reports, Len(reports))
        all == [k \in 1..Len(reports) |-> [reports[k] EXCEPT !.riskScore = Max(35, reports[k].riskScore)]]
        ai == AiCharCount(all, Len(reports))
    IN  IF total > 0 THEN clamp(MathRound(NumberTimesInt(NumberOverInt(ai, total), 100)), 0, 100) ELSE 0

OverallRiskScore(reports) ==
    LET total == TotalCharCount(reports, Len(reports))
        ai == AiCharCount(reports, Len(reports))
    IN  IF total > 0 THEN clamp(MathRound(NumberTimesInt(NumberOverInt(ai, total), 100)), 0, 100) ELSE 0

NoReport == [overallRiskScore |-> 0, overallRiskLevel |-> "low", paragraphReports |-> <<>>]

\* variant: blocks without text are dropped before detection
detectSkippingEmpty(paragraphs) ==
    LET HasText(p) == p.len > 0
        kept == SelectSeq(paragraphs, HasText)
        isomorphicSet == detectStructuralIsomorphism(kept)
        paragraphReports == MapReports(kept, Len(kept), isomorphicSet)
        overallRiskScore == OverallRiskScore(paragraphReports)
    IN  [overallRiskScore |-> overallRiskScore,
         overallRiskLevel |-> riskLevel(overallRiskScore),
         paragraphReports |-> paragraphReports]

detectAigcRisk(paragraphs) ==
    LET isomorphicSet == detectStructuralIsomorphism(paragraphs)
        paragraphReports == MapReports(paragraphs, Len(paragraphs), isomorphicSet)
        overallRiskScore == OverallRiskScore(paragraphReports)
    IN  [overallRiskScore |-> overallRiskScore,
         overallRiskLevel |-> riskLevel(overallRiskScore),
         paragraphReports |-> paragraphReports]

(***************************************************************************)
(* billing/fileLedger                                                      *)
(* A number of points is counted in halves of a point (PointUnit halves    *)
(* make one point), so that a call can hand over a fraction and Math.floor *)
(* has something to cut.  accounts maps every account id to exists and     *)
(* balance; an id the ledger does not hold has exists = FALSE.             *)
(***************************************************************************)
PointUnit == 2

\* n whole points
Points(n) == n * PointUnit

\* Math.floor
MathFloor(x) == (x \div PointUnit) * PointUnit

AccountIds == {"local", "u1"}

NoAccount == [exists |-> FALSE, balance |-> 0]

\* the state of a ledger with no file to load
EmptyLedger == [accounts |-> [a \in AccountIds |-> NoAccount], transactions |-> <<>>]

\* variant: the initial balance is stored as handed over
ensureAccountWithoutFloor(state, accountId, initialBalance) ==
    IF state.accounts[accountId].exists THEN state
    ELSE [state EXCEPT !.accounts[accountId] = [exists |-> TRUE, balance |-> Max(0, initialBalance)]]

ensureAccount(state, accountId, initialBalance) ==
    IF state.accounts[accountId].exists THEN state
    ELSE [state EXCEPT !.accounts[accountId] = [exists |-> TRUE, balance |-> Max(0, MathFloor(initialBalance))]]

getBalance(state, accountId) ==
    IF state.accounts[accountId].exists THEN state.accounts[accountId].balance ELSE 0

InsufficientPoints == "INSUFFICIENT_POINTS"

\* what a call that changes the ledger gives: the state it leaves and the
\* error it throws ("" when it returns)
LedgerOutcome(state, error) == [state |-> state, error |-> error]

apply(state, accountId, delta, reason, meta) ==
    LET acc == state.accounts[accountId]
    IN  IF ~acc.exists THEN LedgerOutcome(state, "Account not found")
        ELSE IF acc.balance + delta < 0 THEN LedgerOutcome(state, InsufficientPoints)
        ELSE LedgerOutcome(
                 [state EXCEPT !.accounts[accountId].balance = acc.balance + delta,
                               !.transactions = Append(@, [accountId |-> accountId, delta |-> delta,
                                                           reason |-> reason, meta |-> meta])],
                 "")

topup(state, accountId, points, meta) ==
    IF Max(0, MathFloor(points)) = 0 THEN LedgerOutcome(state, "Invalid topup points")
    ELSE apply(state, accountId, Max(0, MathFloor(points)), "TOPUP", meta)

charge(state, accountId, points, meta) ==
    IF Max(0, MathFloor(points)) = 0 THEN LedgerOutcome(state, "Invalid charge points")
    ELSE IF getBalance(state, accountId) < Max(0, MathFloor(points))
        THEN LedgerOutcome(state, InsufficientPoints)
    ELSE apply(state, accountId, -Max(0, MathFloor(points)), "CHARGE", meta)

refund(state, accountId, points, meta) ==
    IF Max(0, MathFloor(points)) = 0 THEN LedgerOutcome(state, "Invalid refund points")
    ELSE apply(state, accountId, Max(0, MathFloor(points)), "REFUND", meta)

(***************************************************************************)
(* server/sessionStore                                                     *)
(* An optional field of a SessionRecord holds None (undefined) or          *)
(* Some(value).  A map from paragraph ids to values is a function on the   *)
(* ids it holds; <<>> is the empty map.                                    *)
(***************************************************************************)
None == <<>>

Some(v) == <<v>>

\* the ids randomUUID hands out
SessionIds == {"s1"}

\* an id of the store that holds no record
NoSession ==
    [exists |-> FALSE, originalDocx |-> EmptyZip, paragraphs |-> <<>>,
     reportBefore |-> None, reportAfter |-> None, revised |-> <<>>, rewriteResults |-> <<>>,
     chatMessages |-> <<>>, revisedDocx |-> None, revisedDocxRevision |-> None, revision |-> 0]

EmptyStore == [id \in SessionIds |-> NoSession]

\* InMemorySessionStore.create, with the id randomUUID gave
create(store, sessionId, buffer) ==
    [store EXCEPT ![sessionId] = [NoSession EXCEPT !.exists = TRUE, !.originalDocx = buffer]]

\* { ...cur, ...patch }: the fields of patch replace those of cur
Merge(cur, patch) == [f \in DOMAIN cur |-> IF f \in DOMAIN patch THEN patch[f] ELSE cur[f]]

\* InMemorySessionStore.update (on a session the store holds)
update(store, sessionId, patch) == [store EXCEPT ![sessionId] = Merge(store[sessionId], patch)]

(***************************************************************************)
(* Inputs                                                                  *)
(***************************************************************************)
MaxXmlPieces == 2

MaxPieces == 2

MaxTextPieces == 1

MaxKey == 1

MaxReplacements == 2

SeqsUpTo(S, n) == UNION {[1..k -> S] : k \in 0..n}

Concats(S, n) == {Flatten(ps) : ps \in SeqsUpTo(S, n)}

\* the reserved characters, the entity texts built from them, and fragments of entities
XmlPieces ==
    {<<"&">>, <<"<">>, <<">">>, <<"\"">>, <<"'">>, <<"a">>,
     EntAmp, EntLt, EntGt, EntQuot, EntApos,
     <<"a", "m", "p", ";">>, <<"l", "t", ";">>}

XmlInputs == Concats(XmlPieces, MaxXmlPieces)

PieceRun == <<"<w:p>", "<w:r>", "<w:t>", "a", "</w:t>", "</w:r>", "</w:p>">>

PieceTwoLeaves ==
    <<"<w:p>", "<w:pPr>", "</w:pPr>", "<w:r>", "<w:t>", "b", "</w:t>", "<w:tab/>", "</w:r>",
      "<w:r>", PreserveTag, "a", " ", "</w:t>", "</w:r>", "</w:p>">>

PieceNoLeafPPr == <<"<w:p>", "<w:pPr>", "</w:pPr>", "</w:p>">>

PieceNoLeaf == <<"<w:p>", "<w:r>", "<w:br/>", "</w:r>", "</w:p>">>

PieceCell == <<"<w:tc>">> \o PieceRun \o <<"</w:tc>">>

\* two text leaves, the later one written exactly as a patched first leaf is
PieceSameLeaf ==
    <<"<w:p>", "<w:r>", "<w:t>", "b", "</w:t>", "</w:r>",
      "<w:r>", PreserveTag, "a", "</w:t>", "</w:r>", "</w:p>">>

\* blocks, a block in a table cell, markup between blocks, and an unbalanced
\* block boundary
DocPieces ==
    {PieceRun, PieceTwoLeaves, PieceNoLeafPPr, PieceNoLeaf, PieceCell, PieceSameLeaf,
     <<"<w:tc>">>, <<"</w:tc>">>, <<"<w:p>">>}

Documents == Concats(DocPieces, MaxPieces)

TextPieces == {<<"a">>, <<"<">>, <<"$", Backtick>>, <<"$", "&">>, <<"$", "'">>, <<"$", "1">>, <<"$", "$">>}

Texts == Concats(TextPieces, MaxTextPieces)

ReplacementIds == {ParagraphId(n) : n \in 0..MaxKey}

ReplacementMaps ==
    UNION {[ks -> Texts] : ks \in {S \in SUBSET ReplacementIds : Cardinality(S) <= MaxReplacements}}

MaxSignals == 4

MaxParagraphs == 2

MaxLenHundreds == 2

\* the subsets of S with at most k elements
SubsetsUpTo(S, k) == {T \in SUBSET S : Cardinality(T) <= k}

\* text lengths: empty, and multiples of a hundred characters
Lens == {0} \cup {k * 100 : k \in 1..MaxLenHundreds}

\* a text of len characters in a document of n paragraphs can satisfy the
\* conditions conds: each rule has its charCount, topic shift needs a
\* neighbour, isomorphism a window of three paragraphs
Feasible(len, n, conds) ==
    \A r \in conds :
        /\ len >= Rules[r].minChars
        /\ r = TopicShiftRule => n >= 2
        /\ r = IsomorphismRule => n >= 3

\* the i-th paragraph of a document, with the features of a text
Paragraph(i, features) ==
    [id |-> ParagraphId(i - 1), index |-> i - 1, kind |-> "paragraph",
     len |-> features.len, head |-> features.head, connSetCount |-> features.connSetCount,
     tokens |-> features.tokens, connectiveCount |-> features.connectiveCount,
     sentenceCount |-> features.sentenceCount, strongClaimCount |-> features.strongClaimCount,
     citationMarkerCount |-> features.citationMarkerCount, conds |-> features.conds]

\* a text of len characters that hits no word list: one token, one sentence,
\* and an opening of its own
PlainText(len, head) ==
    [len |-> len, head |-> IF len >= 2 THEN head ELSE <<>>, connSetCount |-> 0,
     tokens |-> IF len >= 2 THEN {1} ELSE {}, connectiveCount |-> 0,
     sentenceCount |-> IF len >= 1 THEN 1 ELSE 0, strongClaimCount |-> 0,
     citationMarkerCount |-> 0, conds |-> {}]

\* a text of len characters for which exactly the conditions conds hold
\* (topic shift and isomorphism aside): features that give the conditions of
\* the FeatureRules in conds and of no other
InputParagraph(i, len, conds) ==
    LET plain == PlainText(len, IF i % 2 = 1 THEN <<"a", "b">> ELSE <<"a", "c">>)
        strong == StrongClaimRule \in conds
        weak == WeakClaimRule \in conds
        imbalance == CiteImbalanceRule \in conds
    IN  Paragraph(i,
            [plain EXCEPT
                !.connectiveCount = IF ConnectivesRule \in conds THEN 2 + len \div 125 ELSE 0,
                !.strongClaimCount = IF imbalance THEN 3 ELSE IF strong \/ weak THEN 1 ELSE 0,
                !.sentenceCount = IF strong THEN 1 ELSE IF weak \/ imbalance THEN 10 ELSE plain.sentenceCount,
                !.citationMarkerCount = IF weak \/ ~(strong \/ imbalance) THEN 0 ELSE 1,
                !.conds = conds \ FeatureRules])

\* one long paragraph, with every feasible set of at most MaxSignals conditions
SingleParagraphInputs ==
    LET len == MaxLenHundreds * 100
    IN  {<<InputParagraph(1, len, c)>> :
            c \in SubsetsUpTo({r \in RuleIds : Feasible(len, 1, {r})}, MaxSignals)}

\* condition sets giving the scores 0, 34, 57, 70, 98 (five signals in two
\* categories) and 100
Profiles == {{}, {4, 11}, {1, 4, 5}, {2, 4, 9}, {1, 2, 3, 4, 6}, {1, 2, 4, 9, 11}}

\* documents of n paragraphs, each with a length and a profile
SeveralParagraphInputs(n) ==
    LET choices == {lc \in Lens \X Profiles : Feasible(lc[1], n, lc[2])}
    IN  {[i \in 1..n |-> InputParagraph(i, f[i][1], f[i][2])] : f \in [1..n -> choices]}

MaxWindowParagraphs == 4

\* how a text opens and how many words of connSet it includes: the same two
\* characters or not, fewer than two characters, one or two connSet words
Openings ==
    {<<<<"a", "b">>, 1>>, <<<<"a", "c">>, 1>>, <<<<"a">>, 1>>, <<<<"a", "b">>, 2>>, <<<<"a", "c">>, 2>>}

OpeningText(o) ==
    [PlainText(300, o[1]) EXCEPT !.head = o[1], !.connSetCount = o[2], !.connectiveCount = o[2]]

\* documents of n paragraphs that differ in their openings
IsomorphismInputs(n) ==
    {[i \in 1..n |-> Paragraph(i, OpeningText(f[i]))] : f \in [1..n -> Openings]}

MaxConnectives == 3

\* one paragraph with c connectives in a text of one character less than,
\* exactly, or one character more than 125 characters per connective
ConnectiveInputs ==
    {<<Paragraph(1, [PlainText(len, <<"a", "b">>) EXCEPT !.connectiveCount = c])>> :
        c \in 0..MaxConnectives,
        len \in {125 * k + d : k \in 1..MaxConnectives, d \in {-1, 0, 1}}}

MaxTopicParagraphs == 3

\* token sets with Jaccard similarities 0, 1/13, 2/25, 1/12, 12/13 and 1
TokenSets == {{}, {1}, {1, 2}, 1..12, 1..13, 1..25, {26}}

\* documents of n paragraphs of len characters that differ in their tokens;
\* len is at one of the two sides of the 50-character condition
TopicInputs(n, len) ==
    {[i \in 1..n |-> Paragraph(i, [PlainText(len, <<"a", "b">>) EXCEPT !.tokens = f[i]])] :
        f \in [1..n -> {t \in TokenSets : 2 * Cardinality(t) <= len}]}

MaxStrongClaims == 3

MaxSentences == 10

MaxCitations == 2

\* one paragraph with its counts of strong-claim words, sentences and citations
ClaimInputs ==
    {<<Paragraph(1, [PlainText(300, <<"a", "b">>) EXCEPT
                        !.strongClaimCount = c, !.sentenceCount = n, !.citationMarkerCount = k])>> :
        c \in 0..MaxStrongClaims, n \in 1..MaxSentences, k \in 0..MaxCitations}

\* the documents detectAigcRisk is called with
DetectInputs(paragraphs) ==
    \/ paragraphs \in SingleParagraphInputs
    \/ \E n \in 0..MaxParagraphs : paragraphs \in SeveralParagraphInputs(n)
    \/ \E n \in 1..MaxWindowParagraphs : paragraphs \in IsomorphismInputs(n)
    \/ paragraphs \in ConnectiveInputs
    \/ \E n \in 1..MaxTopicParagraphs, len \in {49, 50} : paragraphs \in TopicInputs(n, len)
    \/ paragraphs \in ClaimInputs

(***************************************************************************)
(* server/routes/api: POST /upload                                         *)
(* A character of a text stands for a passage of the document: what        *)
(* extractFeatures reads off a text is what Passages gives for its first   *)
(* character (the word lists of the features are not part of the model).   *)
(***************************************************************************)
\* the passages: their text.length and the rule conditions that hold for
\* them; "a" scores 0, "b" 57, "c" 70, "d" 0 and "e" (300 characters) 34
Passages ==
    [ch \in {"a", "b", "c", "d", "e"} |->
        CASE ch = "a" -> [len |-> 100, conds |-> {}]
          [] ch = "b" -> [len |-> 100, conds |-> {1, 4, 5}]
          [] ch = "c" -> [len |-> 100, conds |-> {2, 4, 9}]
          [] ch = "d" -> [len |-> 100, conds |-> {}]
          [] ch = "e" -> [len |-> 300, conds |-> {4, 11}]]

\* text.length
TextLength(text) == IF text = <<>> THEN 0 ELSE Passages[text[1]].len

\* a paragraph { id, index, text, kind } as detectAigcRisk sees it
DetectorParagraph(p) ==
    IF p.text = <<>>
        THEN [Paragraph(p.index + 1, PlainText(0, <<>>)) EXCEPT !.id = p.id, !.kind = p.kind]
        ELSE [InputParagraph(p.index + 1, Passages[p.text[1]].len, Passages[p.text[1]].conds)
                 EXCEPT !.id = p.id, !.kind = p.kind]

RECURSIVE DetectorRange(_, _, _)
DetectorRange(paragraphs, lo, hi) ==
    IF lo > hi THEN <<>>
    ELSE IF lo = hi THEN <<DetectorParagraph(paragraphs[lo])>>
    ELSE DetectorRange(paragraphs, lo, (lo + hi) \div 2) \o DetectorRange(paragraphs, (lo + hi) \div 2 + 1, hi)

DetectorInput(paragraphs) == DetectorRange(paragraphs, 1, Len(paragraphs))

\* parsed.paragraphs.map((p) => ({ id, index, text, kind }))
RECURSIVE SessionRange(_, _, _)
SessionRange(paragraphs, lo, hi) ==
    IF lo > hi THEN <<>>
    ELSE IF lo = hi THEN <<[id |-> paragraphs[lo].id, index |-> paragraphs[lo].index,
                            text |-> paragraphs[lo].text, kind |-> paragraphs[lo].kind]>>
    ELSE SessionRange(paragraphs, lo, (lo + hi) \div 2) \o SessionRange(paragraphs, (lo + hi) \div 2 + 1, hi)

SessionParagraphs(paragraphs) == SessionRange(paragraphs, 1, Len(paragraphs))

MAX_JUDGE == 30

\* position k comes before position i when sorted by falling riskScore;
\* Array.sort is stable, so equal scores stay in document order
Before(reports, k, i) ==
    \/ reports[k].riskScore > reports[i].riskScore
    \/ reports[k].riskScore = reports[i].riskScore /\ k < i

\* ranks rank..limit of the sorted order of positions
RECURSIVE SortedFrom(_, _, _, _)
SortedFrom(reports, positions, rank, limit) ==
    IF rank > limit THEN <<>>
    ELSE IF rank = limit
        THEN <<CHOOSE i \in positions : Cardinality({k \in positions : Before(reports, k, i)}) = rank - 1>>
    ELSE SortedFrom(reports, positions, rank, (rank + limit) \div 2)
             \o SortedFrom(reports, positions, (rank + limit) \div 2 + 1, limit)

SortByScore(reports, positions) == SortedFrom(reports, positions, 1, Cardinality(positions))

\* variant: every paragraph is a candidate
candidatesUnfiltered(reports) == Slice(SortByScore(reports, 1..Len(reports)), MAX_JUDGE)

\* candidatesForJudge, as positions in paragraphReports
candidatesForJudge(reports) ==
    Slice(SortByScore(reports, {i \in 1..Len(reports) : reports[i].riskScore >= 50}), MAX_JUDGE)

\* what Promise.allSettled gives for one judgeParagraphWithDashscope call
Rejected == [status |-> "rejected", riskScore0to100 |-> 0, hasReasons |-> FALSE]

Fulfilled(riskScore0to100, hasReasons) ==
    [status |-> "fulfilled", riskScore0to100 |-> riskScore0to100, hasReasons |-> hasReasons]

\* the literals 0.4 and 0.6 of the fusion
RuleWeight == Literal(4, 10)

JudgeWeight == Literal(6, 10)

JudgeSignal == [signalId |-> "llm_judge_review", category |-> "aiPattern", score |-> 0]

Rescored(paraReport, riskScore, judgeOutput) ==
    [paraReport EXCEPT !.riskScore = riskScore,
                       !.riskLevel = IF riskScore >= 70 THEN "high" ELSE IF riskScore >= 35 THEN "medium" ELSE "low",
                       !.signals = IF judgeOutput.hasReasons THEN Append(@, JudgeSignal) ELSE @]

\* the body of the loop over a batch, for a fulfilled call
fuse(paraReport, judgeOutput) ==
    Rescored(paraReport,
             Min(100, Max(0, MathRound(NumberPlus(NumberTimesInt(RuleWeight, paraReport.riskScore),
                                                  NumberTimesInt(JudgeWeight, judgeOutput.riskScore0to100))))),
             judgeOutput)

\* report i after the loop over the candidates: a report is a candidate at
\* most once
FusedReport(reports, candidates, judgeResults, i) ==
    IF \E j \in 1..Len(candidates) : candidates[j] = i /\ judgeResults[j].status = "fulfilled"
        THEN fuse(reports[i], judgeResults[CHOOSE j \in 1..Len(candidates) : candidates[j] = i])
        ELSE reports[i]

\* the reports lo..hi after the loop over the candidates
RECURSIVE FuseRange(_, _, _, _, _)
FuseRange(reports, candidates, judgeResults, lo, hi) ==
    IF lo > hi THEN <<>>
    ELSE IF lo = hi THEN <<FusedReport(reports, candidates, judgeResults, lo)>>
    ELSE FuseRange(reports, candidates, judgeResults, lo, (lo + hi) \div 2)
             \o FuseRange(reports, candidates, judgeResults, (lo + hi) \div 2 + 1, hi)

FuseAll(reports, candidates, judgeResults) == FuseRange(reports, candidates, judgeResults, 1, Len(reports))

ReportOf(overallRiskScore, paragraphReports) ==
    [overallRiskScore |-> overallRiskScore,
     overallRiskLevel |-> IF overallRiskScore >= 70 THEN "high" ELSE IF overallRiskScore >= 35 THEN "medium" ELSE "low",
     paragraphReports |-> paragraphReports]

\* the document score computed again from the fused paragraph reports
recomputed(before, paragraphReports) == ReportOf(OverallRiskScore(paragraphReports), paragraphReports)

\* reportBefore after the judge review
reviewed(before, candidates, judgeResults) ==
    recomputed(before, FuseAll(before.paragraphReports, candidates, judgeResults))

\* the store.update that ends the upload
uploadUpdate(store, sessionId, paragraphs, reportBefore) ==
    update(store, sessionId,
           [paragraphs |-> paragraphs, reportBefore |-> Some(reportBefore), reportAfter |-> None,
            revised |-> <<>>, rewriteResults |-> <<>>, revision |-> 0,
            revisedDocx |-> None, revisedDocxRevision |-> None])

\* the locals of an upload request
NoUpload ==
    [pc |-> "idle", file |-> [present |-> FALSE, isDocx |-> FALSE, buffer |-> EmptyZip], apiKey |-> FALSE,
     sessionId |-> "", paragraphs |-> <<>>, reportBefore |-> None, candidates |-> <<>>,
     judgeResults |-> <<>>, error |-> ""]

(***************************************************************************)
(* server/routes/api: the requests on a session                            *)
(* A handler runs without interruption from one await to the next; the     *)
(* session it read with store.get at its start is the record of that       *)
(* moment (store.update puts a new record in the store, it does not        *)
(* change the one a handler holds).                                        *)
(***************************************************************************)
MaxRequests == 3

\* getDefaultFreePoints(), with DEFAULT_FREE_POINTS = 3
DefaultFreePoints == Points(3)

\* estimateRewritePoints: one point per 200 characters, at least one
estimateRewritePoints(text) ==
    IF TextLength(text) = 0 THEN Points(1) ELSE Points(Max(1, (TextLength(text) + 199) \div 200))

\* the locals of a request: session is what store.get gave, done counts the
\* paragraph ids the rewrite loop has finished
NoRequest ==
    [kind |-> "none", pc |-> "idle", sessionId |-> "", session |-> NoSession, accountId |-> "",
     isAdmin |-> FALSE, paragraphIds |-> <<>>, done |-> 0, chargedPoints |-> 0, updated |-> <<>>,
     rewriteResults |-> <<>>, details |-> <<>>, messageId |-> "", editedText |-> None,
     error |-> "", response |-> None, fromCache |-> FALSE]

NoRequests == [r \in 1..MaxRequests |-> NoRequest]

\* the request ends with an HttpError (or the error thrown) of this code
Failed(req, code) == [req EXCEPT !.pc = "failed", !.error = code]

\* the meta of a ledger call; request tells the calls of overlapping
\* requests apart (the code's meta has sessionId and paragraphId only)
Meta(sessionId, paragraphId, r) == [sessionId |-> sessionId, paragraphId |-> paragraphId, request |-> r]

\* { ...map, [key]: value }
MapSet(map, key, value) == [k \in DOMAIN map \cup {key} |-> IF k = key THEN value ELSE map[k]]

\* paragraphs.find((x) => x.id === pid): its position, 0 when there is none
FindParagraph(paragraphs, pid) ==
    IF \E i \in 1..Len(paragraphs) : paragraphs[i].id = pid
        THEN CHOOSE i \in 1..Len(paragraphs) :
                 paragraphs[i].id = pid /\ \A k \in 1..(i - 1) : paragraphs[k].id # pid
        ELSE 0

\* session.paragraphs.map(p => ({ ...p, text: updated[p.id] ?? p.text }))
RECURSIVE MergedRange(_, _, _, _)
MergedRange(paragraphs, updated, lo, hi) ==
    IF lo > hi THEN <<>>
    ELSE IF lo = hi
        THEN <<[paragraphs[lo] EXCEPT !.text = IF paragraphs[lo].id \in DOMAIN updated
                                                  THEN updated[paragraphs[lo].id] ELSE @]>>
    ELSE MergedRange(paragraphs, updated, lo, (lo + hi) \div 2)
             \o MergedRange(paragraphs, updated, (lo + hi) \div 2 + 1, hi)

mergedParagraphs(paragraphs, updated) == MergedRange(paragraphs, updated, 1, Len(paragraphs))

\* detectAigcRisk(mergedParagraphs)
reportAfterOf(paragraphs, updated) == detectAigcRisk(DetectorInput(mergedParagraphs(paragraphs, updated)))

\* the checks every handler but export and chat apply starts with
SessionError(session) ==
    IF ~session.exists THEN "SESSION_NOT_FOUND"
    ELSE IF session.paragraphs = <<>> THEN "NO_PARAGRAPHS"
    ELSE IF session.reportBefore = None THEN "NO_REPORT"
    ELSE ""

\* a request and the ledger as a handler leaves them at an await or at its end
Progress(req, ledgerState) == [request |-> req, ledger |-> ledgerState]

\* the charge of a paragraph (none for an admin), then the await of the
\* text-generation call
Charged(req, r, pid, points, outcome) ==
    IF outcome.error # "" THEN Progress(Failed(req, outcome.error), outcome.state)
    ELSE Progress([req EXCEPT !.pc = "generating", !.chargedPoints = points], outcome.state)

ChargeFor(req, r, ledgerState, pid, points) ==
    Charged(req, r, pid, points,
            IF req.isAdmin THEN LedgerOutcome(ledgerState, "")
            ELSE charge(ledgerState, req.accountId, points, Meta(req.sessionId, pid, r)))

\* variant: nothing is refunded
RefundedNothing(req, r, ledgerState, pid) == ledgerState

\* the refund after a failed text-generation call; an error of the refund is
\* swallowed
Refunded(req, r, ledgerState, pid) ==
    IF req.isAdmin THEN ledgerState
    ELSE refund(ledgerState, req.accountId, req.chargedPoints, Meta(req.sessionId, pid, r)).state

\* the rewrite loop from the top of a pass to the await in it
RewritePass(req, r, ledgerState, pid, i) ==
    IF i = 0 THEN Progress(Failed(req, "INVALID_PARAGRAPH"), ledgerState)
    ELSE ChargeFor(req, r, ledgerState, pid, estimateRewritePoints(req.session.paragraphs[i].text))

RewriteNext(req, r, ledgerState) ==
    RewritePass(req, r, ledgerState, req.paragraphIds[req.done + 1],
                FindParagraph(req.session.paragraphs, req.paragraphIds[req.done + 1]))

\* the rewrite loop after a successful call: the results of the pass
RewriteKept(req, pid, revisedText) ==
    [req EXCEPT !.rewriteResults = MapSet(@, pid, [revisedText |-> revisedText, chargedPoints |-> req.chargedPoints]),
                !.updated = MapSet(@, pid, revisedText),
                !.details = Append(@, pid),
                !.done = @ + 1]

\* the store.update that ends a rewrite
rewriteUpdate(store, req) ==
    update(store, req.sessionId,
           [revised |-> req.updated, rewriteResults |-> req.rewriteResults,
            reportAfter |-> Some(reportAfterOf(req.session.paragraphs, req.updated)),
            revision |-> req.session.revision + 1,
            revisedDocx |-> None, revisedDocxRevision |-> None])

\* the store.update of a recheck
recheckUpdate(store, sessionId, session) ==
    update(store, sessionId, [reportAfter |-> Some(reportAfterOf(session.paragraphs, session.revised))])

\* export: the cached document is taken as it is
exportFromCache(session) ==
    session.revisedDocx # None /\ session.revisedDocxRevision = Some(session.revision)

\* variant: the export writes the cache and takes the revised map as empty
exportUpdateClearing(store, sessionId, revisedDocx, curRev) ==
    update(store, sessionId, [revisedDocx |-> Some(revisedDocx), revisedDocxRevision |-> Some(curRev),
                              revised |-> <<>>])

\* the store.update of an export that built the document
exportUpdate(store, sessionId, revisedDocx, curRev) ==
    update(store, sessionId, [revisedDocx |-> Some(revisedDocx), revisedDocxRevision |-> Some(curRev)])

\* the two messages a chat adds; the ids are randomUUIDs, here made of the
\* request
UserMsg(r, paragraphId) ==
    [id |-> "u" \o ToString(r), role |-> "user", paragraphId |-> paragraphId, revisedText |-> None,
     chargedPoints |-> 0]

AssistantMsg(r, paragraphId, revisedText, chargedPoints) ==
    [id |-> "m" \o ToString(r), role |-> "assistant", paragraphId |-> paragraphId,
     revisedText |-> Some(revisedText), chargedPoints |-> chargedPoints]

\* the store.update that ends a chat
chatUpdate(store, req, r, revisedText) ==
    update(store, req.sessionId,
           [chatMessages |-> req.session.chatMessages
                                 \o <<UserMsg(r, req.paragraphIds[1]),
                                      AssistantMsg(r, req.paragraphIds[1], revisedText, req.chargedPoints)>>])

\* chatMessages.find((m) => m.id === messageId): its position, 0 when none
FindMessage(chatMessages, messageId) ==
    IF \E i \in 1..Len(chatMessages) : chatMessages[i].id = messageId
        THEN CHOOSE i \in 1..Len(chatMessages) :
                 chatMessages[i].id = messageId /\ \A k \in 1..(i - 1) : chatMessages[k].id # messageId
        ELSE 0

\* body.editedText?.trim() || msg.revisedText
textToApply(editedText, msg) == IF editedText # None /\ editedText[1] # <<>> THEN editedText[1] ELSE msg.revisedText[1]

\* the store.update of a chat apply
applyUpdate(store, sessionId, session, paragraphId, text) ==
    update(store, sessionId,
           [revised |-> MapSet(session.revised, paragraphId, text),
            reportAfter |-> Some(reportAfterOf(session.paragraphs, MapSet(session.revised, paragraphId, text))),
            revision |-> session.revision + 1,
            revisedDocx |-> None, revisedDocxRevision |-> None])

(***************************************************************************)
(* xmlText: encode a string, then decode the result                        *)
(***************************************************************************)
XmlIdle == xmlIn = <<>> /\ xmlEncoded = <<>> /\ xmlDecoded = <<>> /\ xmlPc = "idle"

DocxIdle ==
    /\ originalDocx = EmptyZip /\ replacements = <<>> /\ parsed = NoParse
    /\ patched = NoPatch /\ reparsed = NoParse /\ docxPc = "idle"

DetectIdle == detectInput = <<>> /\ report = NoReport /\ detectPc = "idle"

NoCall == [op |-> "none", accountId |-> "", points |-> 0, error |-> ""]

LedgerIdle == ledger = EmptyLedger /\ ledgerCall = NoCall

ServerIdle == sessions = EmptyStore /\ upload = NoUpload /\ requests = NoRequests

InitXml ==
    /\ xmlIn \in XmlInputs
    /\ xmlEncoded = <<>> /\ xmlDecoded = <<>> /\ xmlPc = "start"
    /\ DocxIdle
    /\ DetectIdle
    /\ LedgerIdle
    /\ ServerIdle

Encode ==
    /\ xmlPc = "start"
    /\ xmlEncoded' = encodeXmlText(xmlIn)
    /\ xmlPc' = "encoded"
    /\ UNCHANGED <<xmlIn, xmlDecoded, nonXmlVars>>

Decode ==
    /\ xmlPc = "encoded"
    /\ xmlDecoded' = decodeXmlText(xmlEncoded)
    /\ xmlPc' = "decoded"
    /\ UNCHANGED <<xmlIn, xmlEncoded, nonXmlVars>>

NextXml == Encode \/ Decode

SpecXml == InitXml /\ [][NextXml]_vars

(***************************************************************************)
(* docx: parse the upload, patch it, parse the patched container           *)
(***************************************************************************)
InitDocx ==
    /\ originalDocx \in {Docx(x) : x \in Documents} \cup {EmptyZip}
    /\ replacements \in ReplacementMaps
    /\ parsed = NoParse /\ patched = NoPatch /\ reparsed = NoParse
    /\ docxPc = "uploaded"
    /\ XmlIdle
    /\ DetectIdle
    /\ LedgerIdle
    /\ ServerIdle

ParseDocx ==
    /\ docxPc = "uploaded"
    /\ parsed' = parseDocx(originalDocx)
    /\ docxPc' = IF parsed'.error = "" THEN "parsed" ELSE "failed"
    /\ UNCHANGED <<originalDocx, replacements, patched, reparsed, nonDocxVars>>

PatchDocx ==
    /\ docxPc = "parsed"
    /\ patched' = patchDocxParagraphs(originalDocx, replacements)
    /\ docxPc' = IF patched'.error = "" THEN "patched" ELSE "failed"
    /\ UNCHANGED <<originalDocx, replacements, parsed, reparsed, nonDocxVars>>

ParseRevised ==
    /\ docxPc = "patched"
    /\ reparsed' = parseDocx(patched.docx)
    /\ docxPc' = IF reparsed'.error = "" THEN "reparsed" ELSE "failed"
    /\ UNCHANGED <<originalDocx, replacements, parsed, patched, nonDocxVars>>

NextDocx == ParseDocx \/ PatchDocx \/ ParseRevised

SpecDocx == InitDocx /\ [][NextDocx]_vars

(***************************************************************************)
(* Claims about docx extraction, patching and escaping                     *)
(***************************************************************************)
BlockIds(p) == {p.paragraphs[i].id : i \in 1..Len(p.paragraphs)}

Parsed == docxPc \in {"parsed", "patched", "reparsed"}

Patched == docxPc \in {"patched", "reparsed"}

\* C1: the parts of splitDocumentXmlIntoParts, concatenated in order, are the
\* input string; patching with an empty replacement map writes a
\* word/document.xml identical to the original.
C1_LosslessReassembly ==
    /\ Parsed => JoinParts(parsed.parts) = originalDocx.documentXml
    /\ Patched /\ DOMAIN replacements = {} => patched.docx = originalDocx

C1_Witness ==
    /\ Patched /\ DOMAIN replacements = {}
    /\ Len(parsed.parts) >= 3
    /\ parsed.parts[1].type = "chunk"
    /\ parsed.parts[Len(parsed.parts)].type = "chunk"

\* C2: after patching, re-extraction finds the same number of blocks with the
\* same ids, every chunk is unchanged, and every block that the replacement
\* map does not name has its raw markup unchanged.
C2_ReplacementIsolation ==
    docxPc = "reparsed" =>
        /\ Len(reparsed.paragraphs) = Len(parsed.paragraphs)
        /\ \A i \in 1..Len(parsed.paragraphs) : reparsed.paragraphs[i].id = parsed.paragraphs[i].id
        /\ Len(reparsed.parts) = Len(parsed.parts)
        /\ \A i \in 1..Len(parsed.parts) :
              /\ reparsed.parts[i].type = parsed.parts[i].type
              /\ parsed.parts[i].type = "chunk" => reparsed.parts[i].xml = parsed.parts[i].xml
              /\ parsed.parts[i].type = "paragraph" /\ parsed.parts[i].paragraph.id \notin DOMAIN replacements
                    => reparsed.parts[i].paragraph.xml = parsed.parts[i].paragraph.xml

C2_Witness ==
    /\ docxPc = "reparsed"
    /\ Len(parsed.paragraphs) >= 2
    /\ \E k \in BlockIds(parsed) :
          /\ DOMAIN replacements = {k}
          /\ replacements[k] = <<"$", "'">>
    /\ \E i \in 1..Len(parsed.paragraphs) : reparsed.paragraphs[i].xml # parsed.paragraphs[i].xml

\* C3: decodeXmlText(encodeXmlText(s)) = s for strings of reserved characters
\* and of the entity texts built from them.
C3_EscapingInverse == xmlPc = "decoded" => xmlDecoded = xmlIn

C3_Witness ==
    /\ xmlPc = "decoded"
    /\ xmlIn = EntAmp \o <<"a", "m", "p", ";">>
    /\ xmlEncoded # xmlIn

\* C4: keys of the replacement map that name no block are ignored: patching
\* raises no error, gives the result of patching with the known keys alone,
\* and gives the original document.xml when no key is known.
C4_UnknownIdsIgnored ==
    /\ docxPc = "failed" => ~originalDocx.hasDocumentXml
    /\ Patched =>
          LET known == DOMAIN replacements \cap BlockIds(parsed)
              knownOnly == [k \in known |-> replacements[k]]
          IN  /\ patched = patchDocxParagraphs(originalDocx, knownOnly)
              /\ known = {} => patched.docx = originalDocx

C4_Witness ==
    /\ Patched
    /\ \E k \in DOMAIN replacements : k \in BlockIds(parsed)
    /\ \E k \in DOMAIN replacements : k \notin BlockIds(parsed)
    /\ patched.docx # originalDocx

\* C5: the n-th block in document order (n = 0, 1, ...) has index n and id
\* "p-<n>", and a second extraction of the same document gives the same
\* sequence of (id, index, kind, text).
IdsByPosition(p) ==
    \A n \in 1..Len(p.paragraphs) :
        /\ p.paragraphs[n].index = n - 1
        /\ p.paragraphs[n].id = "p-" \o ToString(n - 1)

Summary(p) ==
    [n \in 1..Len(p.paragraphs) |->
        <<p.paragraphs[n].id, p.paragraphs[n].index, p.paragraphs[n].kind, p.paragraphs[n].text>>]

C5_IdsByPosition ==
    /\ Parsed => IdsByPosition(parsed)
    /\ docxPc = "reparsed" => IdsByPosition(reparsed)
    /\ docxPc = "reparsed" /\ patched.docx = originalDocx => Summary(reparsed) = Summary(parsed)

C5_Witness ==
    /\ docxPc = "reparsed" /\ patched.docx = originalDocx
    /\ Len(parsed.paragraphs) >= 2
    /\ parsed.paragraphs[2].kind = "tableCellParagraph"
(***************************************************************************)
(* detector: one call of detectAigcRisk                                    *)
(***************************************************************************)
InitDetect ==
    /\ DetectInputs(detectInput)
    /\ report = NoReport
    /\ detectPc = "start"
    /\ XmlIdle
    /\ DocxIdle
    /\ LedgerIdle
    /\ ServerIdle

Detect ==
    /\ detectPc = "start"
    /\ report' = detectAigcRisk(detectInput)
    /\ detectPc' = "done"
    /\ UNCHANGED <<detectInput, nonDetectVars>>

NextDetect == Detect

SpecDetect == InitDetect /\ [][NextDetect]_vars

(***************************************************************************)
(* Claims about scoring and aggregation                                    *)
(***************************************************************************)
Reports == {report.paragraphReports[i] : i \in 1..Len(report.paragraphReports)}

Categories(signals) == {signals[i].category : i \in 1..Len(signals)}

\* C6: riskScore = min(100, max(0, sum of the signals' scores + bonus)) with
\* bonus 25 / 18 / 10 / 0 for >= 5 / 4 / 3 / fewer signals, plus 8 for >= 3
\* distinct categories; so riskScore is an integer in 0..100.
C6_Bonus(signals) ==
    (CASE Len(signals) >= 5 -> 25
       [] Len(signals) = 4 -> 18
       [] Len(signals) = 3 -> 10
       [] OTHER -> 0)
    + (IF Cardinality(Categories(signals)) >= 3 THEN 8 ELSE 0)

C6_ParagraphScore ==
    detectPc = "done" =>
        \A pr \in Reports :
            /\ pr.riskScore = Min(100, Max(0, SumScores(pr.signals) + C6_Bonus(pr.signals)))
            /\ pr.riskScore \in 0..100

C6_Witness ==
    /\ detectPc = "done"
    /\ \E pr \in Reports :
          /\ Len(pr.signals) = 4
          /\ Cardinality(Categories(pr.signals)) >= 3
          /\ pr.riskScore = SumScores(pr.signals) + 26
          /\ pr.riskScore < 100

\* C7: adding any one rule signal to a paragraph's signals never lowers the
\* paragraph score.
C7_ScoreMonotone ==
    detectPc = "done" =>
        \A pr \in Reports : \A r \in RuleIds :
            ParagraphScore(Append(pr.signals, Signal(r))) >= pr.riskScore

C7_Witness ==
    /\ detectPc = "done"
    /\ \E pr \in Reports :
          /\ Len(pr.signals) = 5
          /\ Cardinality(Categories(pr.signals)) = 2
          /\ pr.riskScore < 100
          /\ \E r \in RuleIds : ParagraphScore(Append(pr.signals, Signal(r))) > pr.riskScore

\* C8: the document score is round(100 * A / T) clamped to 0..100, with T the
\* total text length and A the sum of length * riskScore / 100 over the
\* paragraphs with riskScore >= 35; it is 0 when T = 0.
RECURSIVE SumOver(_, _)
SumOver(f, k) == IF k = 0 THEN 0 ELSE SumOver(f, k - 1) + f[k]

\* round(100 * A / T), halves rounded up as Math.round does, in exact arithmetic
C8_Formula(reports) ==
    LET T == SumOver([k \in 1..Len(reports) |-> reports[k].len], Len(reports))
        A100 == SumOver([k \in 1..Len(reports) |->
                            IF reports[k].riskScore >= 35 THEN reports[k].len * reports[k].riskScore ELSE 0],
                        Len(reports))
    IN  IF T = 0 THEN 0 ELSE Min(100, Max(0, (2 * A100 + T) \div (2 * T)))

C8_DocumentScore ==
    detectPc = "done" => report.overallRiskScore = C8_Formula(report.paragraphReports)

\* C9: overallRiskScore is in 0..100, and is 0 when every paragraph scores
\* below 35 or the total text length is 0.
C9_AggregationBound ==
    detectPc = "done" =>
        /\ report.overallRiskScore \in 0..100
        /\ (\A pr \in Reports : pr.riskScore < 35) => report.overallRiskScore = 0
        /\ (\A pr \in Reports : pr.len = 0) => report.overallRiskScore = 0

C9_Witness ==
    /\ detectPc = "done"
    /\ Len(report.paragraphReports) = 2
    /\ \A pr \in Reports : pr.riskScore = 34 /\ pr.len > 0
    /\ report.overallRiskScore = 0

\* C10: low iff score < 35, medium iff 35 <= score < 70, high iff score >= 70,
\* for every paragraph's riskLevel and for overallRiskLevel.
C10_Level(score, level) ==
    /\ level \in {"low", "medium", "high"}
    /\ level = "low" <=> score < 35
    /\ level = "medium" <=> (35 <= score /\ score < 70)
    /\ level = "high" <=> score >= 70

C10_RiskLevels ==
    detectPc = "done" =>
        /\ \A pr \in Reports : C10_Level(pr.riskScore, pr.riskLevel)
        /\ C10_Level(report.overallRiskScore, report.overallRiskLevel)

C10_Witness ==
    /\ detectPc = "done"
    /\ report.overallRiskScore = 35 /\ report.overallRiskLevel = "medium"
    /\ \E pr \in Reports : pr.riskScore = 70 /\ pr.riskLevel = "high"
    /\ \E pr \in Reports : pr.riskScore = 34 /\ pr.riskLevel = "low"
(***************************************************************************)
(* Claims about the rules                                                  *)
(***************************************************************************)
SignalIds(pr) == {pr.signals[k].signalId : k \in 1..Len(pr.signals)}

\* C11: detectAigcRisk returns a report for every block list, one paragraph
\* report per block in order; for the empty list the report has
\* overallRiskScore 0, overallRiskLevel low and no paragraph reports.
C11_DetectTotal ==
    detectPc = "done" =>
        /\ Len(report.paragraphReports) = Len(detectInput)
        /\ \A i \in 1..Len(detectInput) : report.paragraphReports[i].paragraphId = detectInput[i].id
        /\ report.overallRiskScore \in 0..100
        /\ report.overallRiskLevel \in {"low", "medium", "high"}
        /\ detectInput = <<>> =>
              /\ report.overallRiskScore = 0
              /\ report.overallRiskLevel = "low"
              /\ report.paragraphReports = <<>>

C11_Witness == detectPc = "done" /\ detectInput = <<>> /\ report.paragraphReports = <<>>

\* C12: a block gets the structural-isomorphism signal iff it belongs to a
\* window of three consecutive blocks whose trimmed texts all begin with the
\* same two characters, or which all contain at least 2 of the connSet words.
C12_WindowQualifies(w) ==
    LET h(j) == detectInput[j].head
    IN  \/ \A j \in w..(w + 2) : Len(h(j)) >= 2 /\ h(j)[1] = h(w)[1] /\ h(j)[2] = h(w)[2]
        \/ \A j \in w..(w + 2) : detectInput[j].connSetCount >= 2

C12_Isomorphism ==
    detectPc = "done" =>
        \A i \in 1..Len(detectInput) :
            "ai_structural_isomorphism" \in SignalIds(report.paragraphReports[i])
                <=> \E w \in 1..(Len(detectInput) - 2) : i \in w..(w + 2) /\ C12_WindowQualifies(w)

C12_Witness ==
    /\ detectPc = "done"
    /\ Len(detectInput) = 4
    /\ \A i \in 2..4 : Slice(detectInput[i].head, 2) = <<"a", "b">> /\ detectInput[i].connSetCount < 2
    /\ \A i \in 2..4 : "ai_structural_isomorphism" \in SignalIds(report.paragraphReports[i])
    /\ "ai_structural_isomorphism" \notin SignalIds(report.paragraphReports[1])

\* C13: a paragraph carrying the uniform-sentence signal, the template-phrase
\* signal and a verifiability signal has riskScore >= 45 and is medium or high.
C13_Verifiability ==
    {"veri_strong_claim_no_cite", "veri_claim_no_cite_weak", "veri_cite_imbalance"}

C13_ThreeSignals ==
    detectPc = "done" =>
        \A pr \in Reports :
            ({"lang_uniform_sentence", "style_template_phrases"} \subseteq SignalIds(pr)
                    /\ SignalIds(pr) \cap C13_Verifiability # {})
                => pr.riskScore >= 45 /\ pr.riskLevel \in {"medium", "high"}

C13_Witness ==
    /\ detectPc = "done"
    /\ \E pr \in Reports :
          /\ SignalIds(pr) = {"lang_uniform_sentence", "style_template_phrases", "veri_claim_no_cite_weak"}
          /\ pr.riskScore = 63
          /\ pr.riskLevel = "medium"
(***************************************************************************)
(* Claims about the text of a patched block and the table-cell depth       *)
(***************************************************************************)
\* C14: for every block k and replacement text t, extracting block k from
\* patch(doc, {k: t}) yields t with trailing whitespace trimmed.
C14_TextRoundTrip ==
    docxPc = "reparsed" /\ Cardinality(DOMAIN replacements) = 1 =>
        \A i \in 1..Len(parsed.paragraphs) :
            parsed.paragraphs[i].id \in DOMAIN replacements
                => /\ i <= Len(reparsed.paragraphs)
                   /\ reparsed.paragraphs[i].text = TrimEnd(replacements[parsed.paragraphs[i].id])

\* the block x with its first text leaf holding the escaped text t under
\* xml:space="preserve" and every later leaf empty, read from position i on
RECURSIVE C15_Expected(_, _, _, _)
C15_Expected(x, i, t, first) ==
    IF i > Len(x) THEN <<>>
    ELSE LET close == IndexIn(x, i + 1, TCloseTags)
         IN  IF x[i] \in TOpenTags /\ close # 0
                 THEN (IF first THEN <<PreserveTag>> \o encodeXmlText(t) \o <<"</w:t>">>
                                ELSE <<x[i], "</w:t>">>)
                      \o C15_Expected(x, close + 1, t, FALSE)
             ELSE <<x[i]>> \o C15_Expected(x, i + 1, t, first)

C15_HasLeaf(x) == \E i \in 1..Len(x) : x[i] \in TOpenTags /\ IndexIn(x, i + 1, TCloseTags) # 0

\* C15: when a patched block contains a text leaf, after patching its first
\* leaf holds the escaped replacement text with xml:space="preserve", every
\* later leaf is empty and the markup outside the leaves is unchanged.
C15_FirstLeafHoldsText ==
    Patched =>
        \A k \in 1..Len(parsed.parts) :
            LET p == parsed.parts[k]
            IN  (p.type = "paragraph" /\ p.paragraph.id \in DOMAIN replacements /\ C15_HasLeaf(p.paragraph.xml))
                    => PatchPart(p, replacements).paragraph.xml
                           = C15_Expected(p.paragraph.xml, 1, replacements[p.paragraph.id], TRUE)

\* the counter after the tags of x, taken one by one in document order
RECURSIVE C16_Depth(_)
C16_Depth(x) ==
    IF x = <<>> THEN 0
    ELSE LET d == C16_Depth(SubSeq(x, 1, Len(x) - 1))
             tag == x[Len(x)]
         IN  IF tag = "<w:tc>" THEN d + 1 ELSE IF tag = "</w:tc>" THEN Max(0, d - 1) ELSE d

C16_TagByTag ==
    \A k \in 1..Len(parsed.parts) :
        parsed.parts[k].type = "paragraph"
            => (parsed.parts[k].paragraph.kind = "tableCellParagraph"
                    <=> C16_Depth(JoinParts(SubSeq(parsed.parts, 1, k - 1))) > 0)

\* C16 as claimed: a block is a tableCellParagraph exactly when the counter
\* kept tag by tag over the markup before it is positive, for every tag sequence.
C16_TableCellDepth == Parsed => C16_TagByTag

\* every table-cell close tag of x follows an open tag it matches
C16_NeverFloored(x) ==
    \A n \in 1..Len(x) : x[n] = "</w:tc>" => C16_Depth(SubSeq(x, 1, n - 1)) > 0

\* C16 as amended: the same, for the documents in which the tag-by-tag
\* counter is never floored at 0.
C16_TableCellDepthMatched ==
    Parsed /\ C16_NeverFloored(originalDocx.documentXml) => C16_TagByTag

C16_Witness ==
    /\ Parsed
    /\ C16_NeverFloored(originalDocx.documentXml)
    /\ Len(parsed.paragraphs) = 2
    /\ parsed.paragraphs[1].kind = "tableCellParagraph"
    /\ parsed.paragraphs[2].kind = "paragraph"
(***************************************************************************)
(* Claims about the thresholds of the rules                                *)
(***************************************************************************)
HasSignal(i, signalId) == signalId \in SignalIds(report.paragraphReports[i])

\* C17 as claimed: the dense-connectives signal fires only when the paragraph
\* has >= 2 connective hits and strictly more than 0.8 hits per 100 characters.
C17_DenseConnectivesStrict ==
    detectPc = "done" =>
        \A i \in 1..Len(detectInput) :
            HasSignal(i, "style_connectives_dense")
                => /\ detectInput[i].connectiveCount >= 2
                   /\ 1000 * detectInput[i].connectiveCount > 8 * detectInput[i].len

\* C17 as amended: it fires only when the paragraph has >= 2 connective hits
\* and at least 0.8 hits per 100 characters, and at exactly 0.8 per 100
\* characters with >= 2 hits it fires.
C17_DenseConnectives ==
    detectPc = "done" =>
        \A i \in 1..Len(detectInput) :
            LET c == detectInput[i].connectiveCount
                len == detectInput[i].len
            IN  /\ HasSignal(i, "style_connectives_dense") => c >= 2 /\ 1000 * c >= 8 * len
                /\ c >= 2 /\ 1000 * c = 8 * len => HasSignal(i, "style_connectives_dense")

C17_Witness ==
    /\ detectPc = "done"
    /\ Len(detectInput) = 1
    /\ detectInput[1].connectiveCount = 2 /\ detectInput[1].len = 250
    /\ HasSignal(1, "style_connectives_dense")

\* Jaccard similarity of two token sets below 0.08, in exact arithmetic
C18_Below(a, b) ==
    \/ a = {} \/ b = {}
    \/ 100 * Cardinality(a \cap b) < 8 * Cardinality(a \cup b)

\* C18 as claimed: for a block with two neighbours the topic-shift signal
\* fires only when the similarity is below 0.08 against both neighbours and
\* the block has >= 50 characters.
C18_TopicShiftBoth ==
    detectPc = "done" =>
        \A i \in 2..(Len(detectInput) - 1) :
            HasSignal(i, "logic_topic_shift")
                => /\ detectInput[i].len >= 50
                   /\ C18_Below(detectInput[i - 1].tokens, detectInput[i].tokens)
                   /\ C18_Below(detectInput[i].tokens, detectInput[i + 1].tokens)

\* C18 as amended: it fires only when the similarity is below 0.08 against
\* at least one of the two neighbours and the block has >= 50 characters; a
\* block of >= 50 characters that is similar to one neighbour and dissimilar
\* to the other gets the signal.
C18_TopicShiftEither ==
    detectPc = "done" =>
        \A i \in 2..(Len(detectInput) - 1) :
            LET prev == C18_Below(detectInput[i - 1].tokens, detectInput[i].tokens)
                next == C18_Below(detectInput[i].tokens, detectInput[i + 1].tokens)
            IN  /\ HasSignal(i, "logic_topic_shift") => detectInput[i].len >= 50 /\ (prev \/ next)
                /\ detectInput[i].len >= 50 /\ prev # next => HasSignal(i, "logic_topic_shift")

C18_Witness ==
    /\ detectPc = "done"
    /\ Len(detectInput) = 3
    /\ detectInput[2].len = 50
    /\ detectInput[1].tokens = 1..12 /\ detectInput[2].tokens = 1..13 /\ detectInput[3].tokens = {26}
    /\ HasSignal(2, "logic_topic_shift")

\* C19: a missing neighbour counts as similarity 1: the first block is judged
\* on its successor only, the last block on its predecessor only, and the
\* only block of a document never gets the topic-shift signal.
C19_MissingNeighbour ==
    detectPc = "done" =>
        LET n == Len(detectInput)
            long(i) == detectInput[i].len >= 50
        IN  /\ n = 1 => ~HasSignal(1, "logic_topic_shift")
            /\ n >= 2 =>
                  /\ HasSignal(1, "logic_topic_shift")
                        <=> long(1) /\ C18_Below(detectInput[1].tokens, detectInput[2].tokens)
                  /\ HasSignal(n, "logic_topic_shift")
                        <=> long(n) /\ C18_Below(detectInput[n - 1].tokens, detectInput[n].tokens)

C19_Witness ==
    /\ detectPc = "done"
    /\ Len(detectInput) = 3
    /\ \A i \in 1..3 : detectInput[i].len = 50
    /\ detectInput[1].tokens = {1} /\ detectInput[2].tokens = 1..13 /\ detectInput[3].tokens = 1..12
    /\ HasSignal(1, "logic_topic_shift")
    /\ ~HasSignal(3, "logic_topic_shift")

\* the 18-point condition: claim ratio > 30% and at most one citation
C20_StrongCondition(f) ==
    /\ f.sentenceCount > 0
    /\ 10 * f.strongClaimCount > 3 * f.sentenceCount
    /\ f.citationMarkerCount <= 1

\* C20: no paragraph carries both unsupported-claim signals; the 18-point
\* signal fires exactly on its condition, and the 12-point signal exactly
\* when that condition is false, there is a strong claim and no citation.
C20_ClaimTiersExclusive ==
    detectPc = "done" =>
        \A i \in 1..Len(detectInput) :
            LET f == detectInput[i]
            IN  /\ ~(HasSignal(i, "veri_strong_claim_no_cite") /\ HasSignal(i, "veri_claim_no_cite_weak"))
                /\ HasSignal(i, "veri_strong_claim_no_cite") <=> C20_StrongCondition(f)
                /\ HasSignal(i, "veri_claim_no_cite_weak")
                      <=> ~C20_StrongCondition(f) /\ f.strongClaimCount >= 1 /\ f.citationMarkerCount = 0

C20_Witness ==
    /\ detectPc = "done"
    /\ Len(detectInput) = 1
    /\ detectInput[1].strongClaimCount = 3 /\ detectInput[1].sentenceCount = 9
    /\ detectInput[1].citationMarkerCount = 0
    /\ HasSignal(1, "veri_strong_claim_no_cite")
    /\ ~HasSignal(1, "veri_claim_no_cite_weak")

(***************************************************************************)
(* ledger: calls of ensureAccount, topup, charge and refund in any order   *)
(***************************************************************************)
MaxTransactions == 2

\* the numbers handed to the ledger, in halves of a point: -1, 1/2, 1 and
\* 5/2 points
PointInputs == {-2, 1, 2, 5}

Call(op, accountId, points, error) == [op |-> op, accountId |-> accountId, points |-> points, error |-> error]

InitLedger ==
    /\ ledger = EmptyLedger
    /\ ledgerCall = NoCall
    /\ XmlIdle
    /\ DocxIdle
    /\ DetectIdle
    /\ ServerIdle

EnsureAccount ==
    \E a \in AccountIds, initialBalance \in PointInputs :
        /\ ledger' = ensureAccount(ledger, a, initialBalance)
        /\ ledgerCall' = Call("ensureAccount", a, initialBalance, "")
        /\ UNCHANGED nonLedgerVars

\* one call of topup, charge or refund; the transaction list is kept to
\* MaxTransactions entries
LedgerCall(op, outcome(_, _)) ==
    \E a \in AccountIds, points \in PointInputs :
        /\ Len(outcome(a, points).state.transactions) <= MaxTransactions
        /\ ledger' = outcome(a, points).state
        /\ ledgerCall' = Call(op, a, points, outcome(a, points).error)
        /\ UNCHANGED nonLedgerVars

Topup == LET outcome(a, points) == topup(ledger, a, points, "manual") IN LedgerCall("topup", outcome)

Charge == LET outcome(a, points) == charge(ledger, a, points, "call") IN LedgerCall("charge", outcome)

Refund == LET outcome(a, points) == refund(ledger, a, points, "call") IN LedgerCall("refund", outcome)

NextLedger == EnsureAccount \/ Topup \/ Charge \/ Refund

SpecLedger == InitLedger /\ [][NextLedger]_vars

(***************************************************************************)
(* Claims about the ledger                                                 *)
(***************************************************************************)
\* a number of points that is a whole number (no fraction of a point)
IsInteger(x) == x % PointUnit = 0

C26_BalancesNonNegative ==
    \A a \in AccountIds : ledger.accounts[a].balance >= 0 /\ IsInteger(ledger.accounts[a].balance)

\* a step that is a charge for more whole points than the balance
C26_Overdraw ==
    (ledgerCall'.op = "charge" /\ MathFloor(ledgerCall'.points) > getBalance(ledger, ledgerCall'.accountId))
        => (ledgerCall'.error = InsufficientPoints /\ ledger' = ledger)

\* C26: after any sequence of ensureAccount, topup, charge and refund calls
\* every balance is a non-negative integer, and a charge for more points than
\* the balance fails with INSUFFICIENT_POINTS and leaves the balance and the
\* transaction list unchanged.
C26_LedgerSafe == []C26_BalancesNonNegative /\ [][C26_Overdraw]_vars

C26_Witness ==
    /\ ledgerCall.op = "charge"
    /\ ledgerCall.error = InsufficientPoints
    /\ ledger.accounts[ledgerCall.accountId].exists
    /\ ledger.accounts[ledgerCall.accountId].balance > 0
    /\ MathFloor(ledgerCall.points) > ledger.accounts[ledgerCall.accountId].balance
    /\ ledger.transactions # <<>>
    /\ \E a \in AccountIds : ledger.accounts[a].balance = 0 /\ ledger.accounts[a].exists

(***************************************************************************)
(* upload: one POST /upload request at a time, from the request to the     *)
(* store.update that ends it (the awaits are parseDocx and the judge       *)
(* calls)                                                                  *)
(***************************************************************************)
MaxUploadParagraphs == 2

UploadTexts == {"a", "b", "c"}

BlockOf(ch) == <<"<w:p>", "<w:r>", "<w:t>", ch, "</w:t>", "</w:r>", "</w:p>">>

RECURSIVE BodyOf(_)
BodyOf(chars) == IF chars = <<>> THEN <<>> ELSE BlockOf(Head(chars)) \o BodyOf(Tail(chars))

\* a document with one paragraph per passage of chars
DocumentOf(chars) == Docx(BodyOf(chars))

RECURSIVE Repeat(_, _)
Repeat(ch, n) == IF n = 0 THEN <<>> ELSE Append(Repeat(ch, n - 1), ch)

\* more candidates than MAX_JUDGE: one paragraph that scores 57, then
\* MAX_JUDGE that score 70
BigDocument == DocumentOf(<<"b">> \o Repeat("c", MAX_JUDGE))

SmallDocuments == {DocumentOf(chars) : chars \in UNION {[1..n -> UploadTexts] : n \in 0..MaxUploadParagraphs}}

UploadFiles ==
    {[present |-> FALSE, isDocx |-> FALSE, buffer |-> EmptyZip],
     [present |-> TRUE, isDocx |-> FALSE, buffer |-> DocumentOf(<<"a">>)]}
    \cup {[present |-> TRUE, isDocx |-> TRUE, buffer |-> b] : b \in SmallDocuments \cup {BigDocument, EmptyZip}}

JudgeOutcomes == {Rejected, Fulfilled(0, FALSE), Fulfilled(50, TRUE), Fulfilled(100, TRUE)}

\* the outcomes of n judge calls: every combination for a few calls, and
\* for many calls all alike or every second call rejected
JudgeResults(n) ==
    IF n <= MaxUploadParagraphs THEN [1..n -> JudgeOutcomes]
    ELSE {[i \in 1..n |-> IF i % 2 = k THEN Rejected ELSE o] : o \in JudgeOutcomes, k \in {1, 2}}

InitUpload ==
    /\ sessions = EmptyStore
    /\ upload = NoUpload
    /\ requests = NoRequests
    /\ XmlIdle
    /\ DocxIdle
    /\ DetectIdle
    /\ LedgerIdle

\* the upload up to the await of parseDocx: the checks of the file, then
\* store.create
UploadReceive ==
    /\ upload.pc \in {"idle", "done", "failed"}
    /\ \E file \in UploadFiles, apiKey \in BOOLEAN, sessionId \in SessionIds :
          /\ ~sessions[sessionId].exists
          /\ IF ~file.present
                 THEN /\ upload' = [NoUpload EXCEPT !.pc = "failed", !.file = file, !.apiKey = apiKey,
                                                    !.error = "NO_FILE"]
                      /\ sessions' = sessions
             ELSE IF ~file.isDocx
                 THEN /\ upload' = [NoUpload EXCEPT !.pc = "failed", !.file = file, !.apiKey = apiKey,
                                                    !.error = "INVALID_FILE"]
                      /\ sessions' = sessions
             ELSE /\ upload' = [NoUpload EXCEPT !.pc = "parsing", !.file = file, !.apiKey = apiKey,
                                                !.sessionId = sessionId]
                  /\ sessions' = create(sessions, sessionId, file.buffer)
    /\ UNCHANGED <<nonServerVars, ledgerVars, requests>>

\* from the detector's report on: the judge calls are awaited when there
\* are candidates and a key, else the session is updated at once
UploadDetected(paragraphs, reportBefore, candidates) ==
    IF candidates # <<>> /\ upload.apiKey
        THEN /\ upload' = [upload EXCEPT !.pc = "judging", !.paragraphs = paragraphs,
                                         !.reportBefore = Some(reportBefore), !.candidates = candidates]
             /\ sessions' = sessions
        ELSE /\ upload' = [upload EXCEPT !.pc = "done", !.paragraphs = paragraphs,
                                         !.reportBefore = Some(reportBefore), !.candidates = candidates]
             /\ sessions' = uploadUpdate(sessions, upload.sessionId, paragraphs, reportBefore)

UploadReported(paragraphs, reportBefore) ==
    UploadDetected(paragraphs, reportBefore, candidatesForJudge(reportBefore.paragraphReports))

\* parseDocx settles: it throws, or the upload goes on to the detector
UploadParsed ==
    /\ upload.pc = "parsing"
    /\ LET doc == parseDocx(upload.file.buffer)
       IN  IF doc.error # ""
               THEN /\ upload' = [upload EXCEPT !.pc = "failed", !.error = doc.error]
                    /\ sessions' = sessions
               ELSE UploadReported(SessionParagraphs(doc.paragraphs),
                                   detectAigcRisk(DetectorInput(SessionParagraphs(doc.paragraphs))))
    /\ UNCHANGED <<nonServerVars, ledgerVars, requests>>

\* Promise.allSettled settles: fusion, the document score, store.update
UploadJudged ==
    /\ upload.pc = "judging"
    /\ \E judgeResults \in JudgeResults(Len(upload.candidates)) :
          /\ upload' = [upload EXCEPT !.pc = "done", !.judgeResults = judgeResults,
                           !.reportBefore = Some(reviewed(upload.reportBefore[1], upload.candidates, judgeResults))]
          /\ sessions' = uploadUpdate(sessions, upload.sessionId, upload.paragraphs,
                                      reviewed(upload.reportBefore[1], upload.candidates, judgeResults))
    /\ UNCHANGED <<nonServerVars, ledgerVars, requests>>

NextUpload == UploadReceive \/ UploadParsed \/ UploadJudged

SpecUpload == InitUpload /\ [][NextUpload]_vars

(***************************************************************************)
(* Claims about the upload                                                 *)
(***************************************************************************)
\* C30: an upload whose container lacks the text-document stream fails with
\* the parse error, and no session record for it is kept in the store
C30_NoRecordKept ==
    (upload.pc = "failed" /\ upload.error = InvalidDocx) => ~sessions[upload.sessionId].exists

\* the failing upload of C30: the parse error is surfaced, the record stays
C30_Orphan ==
    /\ upload.pc = "failed"
    /\ upload.error = InvalidDocx
    /\ ~upload.file.buffer.hasDocumentXml
    /\ sessions[upload.sessionId].exists
    /\ sessions[upload.sessionId].reportBefore = None

\* the parse error always fails the request
C30_ErrorSurfaced ==
    (upload.pc \in {"done", "judging"}) => upload.file.buffer.hasDocumentXml

\* what the detector alone says about the paragraphs of a session
RuleReports(sessionId) == detectAigcRisk(DetectorInput(sessions[sessionId].paragraphs)).paragraphReports

\* the judge call for paragraph i was made and fulfilled
C22_Judged(i) ==
    \E j \in 1..Len(upload.judgeResults) :
        upload.candidates[j] = i /\ upload.judgeResults[j].status = "fulfilled"

\* fewer than MAX_JUDGE paragraphs score more than paragraph i
C22_AmongHighest(rule, i) ==
    Cardinality({k \in 1..Len(rule) : rule[k].riskScore > rule[i].riskScore}) < MAX_JUDGE

C22_Kept(rule, stored) ==
    /\ Len(stored) = Len(rule)
    /\ \A i \in 1..Len(rule) :
          \/ /\ stored[i].riskScore = rule[i].riskScore
             /\ stored[i].riskLevel = rule[i].riskLevel
             /\ stored[i].signals = rule[i].signals
          \/ rule[i].riskScore >= 50 /\ C22_AmongHighest(rule, i) /\ C22_Judged(i)

C22_OnlyJudgedChange ==
    upload.pc = "done" =>
        C22_Kept(RuleReports(upload.sessionId), sessions[upload.sessionId].reportBefore[1].paragraphReports)

C22_Completes == upload.pc = "judging" => upload'.pc = "done"

\* C22: in the report an upload stores, a paragraph differs from the
\* detector's in riskScore, riskLevel or signals only if its rule score is at
\* least 50, it is among the 30 highest, and its judge call was fulfilled;
\* whatever the judge calls give, the upload completes
C22_FusionOnlyWhereJudged == []C22_OnlyJudgedChange /\ [][C22_Completes]_vars

\* an upload with more than MAX_JUDGE candidates, completed with some judge
\* calls rejected and some fulfilled: the paragraph left out, and those whose
\* call was rejected, are as the detector scored them, a judged one is not
C22_Witness ==
    /\ upload.pc = "done"
    /\ Len(sessions[upload.sessionId].paragraphs) > MAX_JUDGE
    /\ Len(upload.candidates) = MAX_JUDGE
    /\ Len(upload.judgeResults) = MAX_JUDGE
    /\ \E j \in 1..MAX_JUDGE : upload.judgeResults[j].status = "rejected"
    /\ \E i \in 1..Len(sessions[upload.sessionId].paragraphs) :
          /\ C22_Judged(i)
          /\ sessions[upload.sessionId].reportBefore[1].paragraphReports[i].riskScore
                 # RuleReports(upload.sessionId)[i].riskScore
    /\ \E i \in 1..Len(sessions[upload.sessionId].paragraphs) :
          /\ RuleReports(upload.sessionId)[i].riskScore >= 50
          /\ ~(\E j \in 1..MAX_JUDGE : upload.candidates[j] = i)

\* the reports a session keeps
StoredReports ==
    {sessions[id][f][1] : id \in {i \in SessionIds : sessions[i].reportBefore # None},
                          f \in {"reportBefore"}}
    \cup {sessions[id][f][1] : id \in {i \in SessionIds : sessions[i].reportAfter # None},
                               f \in {"reportAfter"}}

C21_Tiers(r) ==
    /\ r.overallRiskLevel = riskLevel(r.overallRiskScore)
    /\ \A i \in 1..Len(r.paragraphReports) :
          r.paragraphReports[i].riskLevel = riskLevel(r.paragraphReports[i].riskScore)

\* C21: in every report a session keeps, overallRiskScore is the
\* length-weighted aggregation formula of the report's own paragraphReports,
\* overallRiskLevel is the tier of overallRiskScore, and every paragraph's
\* riskLevel is the tier of its riskScore
C21_StoredReportsAggregate ==
    \A r \in StoredReports : r.overallRiskScore = C8_Formula(r.paragraphReports) /\ C21_Tiers(r)

\* what does hold: the score is the one the code's own aggregation (in
\* binary64) gives for the report's paragraphReports, and the tiers agree
C21_Recomputable ==
    \A r \in StoredReports : r.overallRiskScore = OverallRiskScore(r.paragraphReports) /\ C21_Tiers(r)

\* a stored report whose score is not the formula's: one point below it
C21_OffByOne ==
    \E r \in StoredReports :
        /\ r.overallRiskScore + 1 = C8_Formula(r.paragraphReports)
        /\ r.overallRiskScore = OverallRiskScore(r.paragraphReports)

(***************************************************************************)
(* session: rewrite, recheck, export, chat and chat apply requests on the  *)
(* session of a completed upload, overlapping in every way the awaits      *)
(* allow                                                                   *)
(***************************************************************************)
\* the uploaded document: p-0 scores 57 and costs one point, p-1 has 300
\* characters and costs two; an account starts with three points
SessionDocuments == {DocumentOf(<<"b", "e">>)}

\* the store after the upload of doc (without judge review)
Uploaded(doc, paragraphs) ==
    uploadUpdate(create(EmptyStore, "s1", doc), "s1", paragraphs, detectAigcRisk(DetectorInput(paragraphs)))

\* what the text-generation calls give
RewrittenText == <<"d">>

ChatText == <<"c">>

EditedText == <<"a">>

\* the bodies of the rewrite requests: paragraphIds and whether the request
\* has the admin secret
RewriteBodies ==
    {[paragraphIds |-> ids, isAdmin |-> FALSE] :
        ids \in {<<ParagraphId(0), ParagraphId(1)>>, <<ParagraphId(0), ParagraphId(9)>>}}
    \cup {[paragraphIds |-> <<ParagraphId(1)>>, isAdmin |-> TRUE]}

\* the bodies of the chat apply requests on a session: the message ids it
\* has and one it has not, with an edited text for the assistant's messages
ApplyBodies(chatMessages) ==
    {[messageId |-> chatMessages[i].id, editedText |-> None] : i \in 1..Len(chatMessages)}
    \cup {[messageId |-> chatMessages[i].id, editedText |-> Some(EditedText)] :
              i \in {k \in 1..Len(chatMessages) : chatMessages[k].role = "assistant"}}
    \cup {[messageId |-> "m0", editedText |-> None]}


InitSession ==
    /\ \E doc \in SessionDocuments : sessions = Uploaded(doc, SessionParagraphs(parseDocx(doc).paragraphs))
    /\ upload = NoUpload
    /\ requests = NoRequests
    /\ ledger = EmptyLedger
    /\ ledgerCall = NoCall
    /\ XmlIdle
    /\ DocxIdle
    /\ DetectIdle

\* requests arrive one after the other
Startable(r) == requests[r].pc = "idle" /\ (IF r = 1 THEN TRUE ELSE requests[r - 1].pc # "idle")

Arrived(kind, sessionId) == [NoRequest EXCEPT !.kind = kind, !.sessionId = sessionId, !.session = sessions[sessionId]]

Step(r, req, store, ledgerState) ==
    /\ requests' = [requests EXCEPT ![r] = req]
    /\ sessions' = store
    /\ ledger' = ledgerState
    /\ UNCHANGED <<nonServerVars, ledgerCall, upload>>

\* POST /rewrite up to its first await
RewriteStart(r) ==
    /\ Startable(r)
    /\ \E sessionId \in SessionIds, body \in RewriteBodies :
          IF SessionError(sessions[sessionId]) # ""
              THEN Step(r, Failed(Arrived("rewrite", sessionId), SessionError(sessions[sessionId])),
                        sessions, ledger)
              ELSE LET next == RewriteNext([Arrived("rewrite", sessionId) EXCEPT
                                               !.accountId = "local", !.isAdmin = body.isAdmin,
                                               !.paragraphIds = body.paragraphIds,
                                               !.updated = sessions[sessionId].revised,
                                               !.rewriteResults = sessions[sessionId].rewriteResults],
                                           r, ensureAccount(ledger, "local", DefaultFreePoints))
                   IN  Step(r, next.request, sessions, next.ledger)

\* the text-generation call of a rewrite fails: refund, and the error is thrown
RewriteFailed(r) ==
    /\ requests[r].kind = "rewrite" /\ requests[r].pc = "generating"
    /\ Step(r, Failed(requests[r], "GENERATION_FAILED"), sessions,
            Refunded(requests[r], r, ledger, requests[r].paragraphIds[requests[r].done + 1]))

\* the rest of the rewrite after a pass that was the last one
RewriteFinish(r, req) ==
    Step(r, [req EXCEPT !.pc = "done",
                        !.response = Some(reportAfterOf(req.session.paragraphs, req.updated))],
         rewriteUpdate(sessions, req), ledger)

RewriteContinue(r, next) == Step(r, next.request, sessions, next.ledger)

RewriteAfterPass(r, req) ==
    IF req.done < Len(req.paragraphIds)
        THEN RewriteContinue(r, RewriteNext(req, r, ledger))
        ELSE RewriteFinish(r, req)

\* the text-generation call of a rewrite returns: the pass is completed, and
\* the handler runs on to the next await or to its end
RewriteGenerated(r) ==
    /\ requests[r].kind = "rewrite" /\ requests[r].pc = "generating"
    /\ RewriteAfterPass(r, RewriteKept(requests[r], requests[r].paragraphIds[requests[r].done + 1],
                                       RewrittenText))

\* POST /recheck: no await
Recheck(r) ==
    /\ Startable(r)
    /\ \E sessionId \in SessionIds :
          IF SessionError(sessions[sessionId]) # ""
              THEN Step(r, Failed(Arrived("recheck", sessionId), SessionError(sessions[sessionId])),
                        sessions, ledger)
              ELSE Step(r, [Arrived("recheck", sessionId) EXCEPT
                               !.pc = "done",
                               !.response = Some(reportAfterOf(sessions[sessionId].paragraphs,
                                                               sessions[sessionId].revised))],
                        recheckUpdate(sessions, sessionId, sessions[sessionId]), ledger)

\* GET /export up to its await, or to its end when nothing is to be built
ExportStart(r) ==
    /\ Startable(r)
    /\ \E sessionId \in SessionIds :
          IF ~sessions[sessionId].exists
              THEN Step(r, Failed(Arrived("export", sessionId), "SESSION_NOT_FOUND"), sessions, ledger)
          ELSE IF sessions[sessionId].revised = <<>>
              THEN Step(r, [Arrived("export", sessionId) EXCEPT
                               !.pc = "done", !.response = Some(sessions[sessionId].originalDocx)],
                        sessions, ledger)
          ELSE IF exportFromCache(sessions[sessionId])
              THEN Step(r, [Arrived("export", sessionId) EXCEPT
                               !.pc = "done", !.response = sessions[sessionId].revisedDocx,
                               !.fromCache = TRUE],
                        sessions, ledger)
          ELSE Step(r, [Arrived("export", sessionId) EXCEPT !.pc = "patching"], sessions, ledger)

\* patchDocxParagraphs returns: the cache is written with the revision read
\* at the start
ExportPatched(r) ==
    /\ requests[r].kind = "export" /\ requests[r].pc = "patching"
    /\ LET built == patchDocxParagraphs(requests[r].session.originalDocx, requests[r].session.revised)
       IN  IF built.error # ""
               THEN Step(r, Failed(requests[r], built.error), sessions, ledger)
               ELSE Step(r, [requests[r] EXCEPT !.pc = "done", !.response = Some(built.docx)],
                         exportUpdate(sessions, requests[r].sessionId, built.docx,
                                      requests[r].session.revision),
                         ledger)

\* POST /chat up to its await
ChatStart(r) ==
    /\ Startable(r)
    /\ \E sessionId \in SessionIds, paragraphId \in {ParagraphId(0)}, isAdmin \in BOOLEAN :
          IF SessionError(sessions[sessionId]) # ""
              THEN Step(r, Failed(Arrived("chat", sessionId), SessionError(sessions[sessionId])),
                        sessions, ledger)
              ELSE LET next == RewriteNext([Arrived("chat", sessionId) EXCEPT
                                               !.accountId = "local", !.isAdmin = isAdmin,
                                               !.paragraphIds = <<paragraphId>>],
                                           r, ensureAccount(ledger, "local", DefaultFreePoints))
                   IN  Step(r, next.request, sessions, next.ledger)

\* chatRewrite fails: refund, and the error is thrown
ChatFailed(r) ==
    /\ requests[r].kind = "chat" /\ requests[r].pc = "generating"
    /\ Step(r, Failed(requests[r], "GENERATION_FAILED"), sessions,
            Refunded(requests[r], r, ledger, requests[r].paragraphIds[1]))

\* chatRewrite returns: the two messages are added to the ones read at the
\* start
ChatReplied(r) ==
    /\ requests[r].kind = "chat" /\ requests[r].pc = "generating"
    /\ Step(r, [requests[r] EXCEPT !.pc = "done", !.messageId = "m" \o ToString(r)],
            chatUpdate(sessions, requests[r], r, ChatText), ledger)

ApplyFound(r, req, msg) ==
    IF msg.role # "assistant" \/ msg.revisedText = None \/ msg.revisedText = Some(<<>>)
        THEN Step(r, Failed(req, "NOT_APPLICABLE"), sessions, ledger)
        ELSE Step(r, [req EXCEPT !.pc = "done", !.paragraphIds = <<msg.paragraphId>>,
                                 !.updated = MapSet(req.session.revised, msg.paragraphId,
                                                    textToApply(req.editedText, msg))],
                  applyUpdate(sessions, req.sessionId, req.session, msg.paragraphId,
                              textToApply(req.editedText, msg)),
                  ledger)

ApplyMessage(r, req, i) ==
    IF i = 0 THEN Step(r, Failed(req, "MESSAGE_NOT_FOUND"), sessions, ledger)
    ELSE ApplyFound(r, req, req.session.chatMessages[i])

\* POST /chat/apply: no await
ChatApply(r) ==
    /\ Startable(r)
    /\ \E sessionId \in SessionIds :
          IF ~sessions[sessionId].exists
              THEN Step(r, Failed(Arrived("apply", sessionId), "SESSION_NOT_FOUND"), sessions, ledger)
              ELSE \E body \in ApplyBodies(sessions[sessionId].chatMessages) :
                      ApplyMessage(r, [Arrived("apply", sessionId) EXCEPT
                                          !.messageId = body.messageId, !.editedText = body.editedText],
                                   FindMessage(sessions[sessionId].chatMessages, body.messageId))

NextSession ==
    \E r \in 1..MaxRequests :
        \/ RewriteStart(r)
        \/ RewriteFailed(r)
        \/ RewriteGenerated(r)
        \/ Recheck(r)
        \/ ExportStart(r)
        \/ ExportPatched(r)
        \/ ChatStart(r)
        \/ ChatFailed(r)
        \/ ChatReplied(r)
        \/ ChatApply(r)

SpecSession == InitSession /\ [][NextSession]_vars

(***************************************************************************)
(* Claims about the requests on a session                                  *)
(***************************************************************************)
\* request r ends in this step with its update of the revised map made
Stores(r) ==
    /\ requests'[r].kind \in {"rewrite", "apply"}
    /\ requests'[r].pc = "done"
    /\ requests[r].pc # "done"

C24_Step ==
    \A id \in SessionIds :
        /\ sessions'[id].revision >= sessions[id].revision
        /\ \A r \in 1..MaxRequests :
              (Stores(r) /\ requests'[r].sessionId = id) => sessions'[id].revision > sessions[id].revision

\* C24: the revision of a session starts at 0 and never decreases, and the
\* update of every request that changes the revised map (a rewrite or a chat
\* apply that succeeds) leaves the stored revision greater than it was just
\* before that update
C24_RevisionGrows == (\A id \in SessionIds : sessions[id].revision = 0) /\ [][C24_Step]_vars

\* two rewrites that overlapped, both done: the revision is 1 after two
\* changes of the revised map
C24_SameRevisionTwice ==
    \E r1, r2 \in 1..MaxRequests :
        /\ r1 # r2
        /\ requests[r1].kind = "rewrite" /\ requests[r1].pc = "done"
        /\ requests[r2].kind = "rewrite" /\ requests[r2].pc = "done"
        /\ requests[r1].session.revision = 0 /\ requests[r2].session.revision = 0
        /\ sessions[requests[r1].sessionId].revision = 1

\* the paragraph ids whose text request r stored
StoredIds(r) == {requests[r].paragraphIds[i] : i \in 1..Len(requests[r].paragraphIds)}

\* request r changed the revised map and succeeded
Writer(r) == requests[r].kind \in {"rewrite", "apply"} /\ requests[r].pc = "done"

\* C25: when two requests that change the revised map of a session for
\* distinct paragraph ids have both succeeded (and no third one has), the
\* revised map holds the new text of the paragraphs of both
C25_NoLostUpdate ==
    \A r1, r2 \in 1..MaxRequests :
        (/\ r1 # r2
         /\ Writer(r1) /\ Writer(r2)
         /\ requests[r1].sessionId = requests[r2].sessionId
         /\ StoredIds(r1) \cap StoredIds(r2) = {}
         /\ \A r3 \in 1..MaxRequests \ {r1, r2} : ~Writer(r3))
        => \A r \in {r1, r2} : \A pid \in StoredIds(r) :
              /\ pid \in DOMAIN sessions[requests[r].sessionId].revised
              /\ sessions[requests[r].sessionId].revised[pid] = requests[r].updated[pid]

\* a rewrite and a chat apply of distinct paragraphs, both done, and the
\* revised map has the text of one of them only
C25_Lost ==
    \E r1, r2 \in 1..MaxRequests :
        /\ r1 # r2
        /\ requests[r1].kind = "apply" /\ requests[r1].pc = "done"
        /\ requests[r2].kind = "rewrite" /\ requests[r2].pc = "done"
        /\ StoredIds(r1) \cap StoredIds(r2) = {}
        /\ DOMAIN sessions[requests[r1].sessionId].revised = StoredIds(r2)

\* C23: whenever an export returns the cached document (the session has a
\* revised map, a revisedDocx, and revisedDocxRevision is its revision), that
\* document is originalDocx patched with the revised map the session has
\* then: in every state for the export that would be served from it, and for
\* every export that was
C23_CacheFresh ==
    /\ \A id \in SessionIds :
          (sessions[id].exists /\ sessions[id].revised # <<>> /\ exportFromCache(sessions[id]))
              => sessions[id].revisedDocx[1]
                     = patchDocxParagraphs(sessions[id].originalDocx, sessions[id].revised).docx
    /\ \A r \in 1..MaxRequests :
          (requests[r].kind = "export" /\ requests[r].pc = "done" /\ requests[r].fromCache)
              => requests[r].response[1]
                     = patchDocxParagraphs(requests[r].session.originalDocx, requests[r].session.revised).docx

\* the cache an export wrote has the revision of the session and the text
\* of a revised map the session no longer has
C23_Stale ==
    \E id \in SessionIds, r \in 1..MaxRequests :
        /\ requests[r].kind = "export" /\ requests[r].pc = "done" /\ requests[r].sessionId = id
        /\ exportFromCache(sessions[id])
        /\ sessions[id].revisedDocx = requests[r].response
        /\ requests[r].session.revised # sessions[id].revised
        /\ requests[r].session.revision = sessions[id].revision

\* request r takes a step
Acts(r) == requests'[r] # requests[r]

\* request r comes to the await of a text-generation call
AwaitsGeneration(r) ==
    /\ requests'[r].pc = "generating"
    /\ requests[r].pc # "generating" \/ requests'[r].done # requests[r].done

\* the paragraph id request r is at
CurrentId(req) == req.paragraphIds[req.done + 1]

Transaction(req, r, delta, reason) ==
    [accountId |-> req.accountId, delta |-> delta, reason |-> reason,
     meta |-> Meta(req.sessionId, CurrentId(req), r)]

\* the transactions of request r
TransactionsOf(r) ==
    SelectSeq(ledger.transactions, LAMBDA t : t.meta.request = r)

C27_ChargedFirst(r) ==
    (AwaitsGeneration(r) /\ ~requests'[r].isAdmin) =>
        /\ requests'[r].chargedPoints > 0
        /\ ledger'.transactions
               = Append(ledger.transactions, Transaction(requests'[r], r, -requests'[r].chargedPoints, "CHARGE"))
        /\ getBalance(ledger', requests'[r].accountId)
               = getBalance(ensureAccount(ledger, requests'[r].accountId, DefaultFreePoints),
                            requests'[r].accountId) - requests'[r].chargedPoints

C27_RefundedOnFailure(r) ==
    (/\ requests[r].pc = "generating"
     /\ requests'[r].pc = "failed" /\ requests'[r].error = "GENERATION_FAILED"
     /\ ~requests[r].isAdmin) =>
        /\ TransactionsOf(r) # <<>>
        /\ TransactionsOf(r)[Len(TransactionsOf(r))]
               = Transaction(requests[r], r, -requests[r].chargedPoints, "CHARGE")
        /\ ledger'.transactions
               = Append(ledger.transactions, Transaction(requests[r], r, requests[r].chargedPoints, "REFUND"))
        /\ getBalance(ledger', requests[r].accountId)
               = getBalance(ledger, requests[r].accountId) + requests[r].chargedPoints

C27_AdminFree(r) ==
    (Acts(r) /\ requests'[r].isAdmin) =>
        /\ ledger'.transactions = ledger.transactions
        /\ \A a \in AccountIds : ledger.accounts[a].exists => ledger'.accounts[a] = ledger.accounts[a]

C27_Step == \A r \in 1..MaxRequests : C27_ChargedFirst(r) /\ C27_RefundedOnFailure(r) /\ C27_AdminFree(r)

C27_AdminNoBalance(r) ==
    (Acts(r) /\ requests'[r].isAdmin) =>
        \A a \in AccountIds : getBalance(ledger', a) = getBalance(ledger, a)

NetDeducted(r) ==
    SumOver([k \in 1..Len(TransactionsOf(r)) |-> -TransactionsOf(r)[k].delta], Len(TransactionsOf(r)))

\* the charges of the paragraphs whose text request r stored in the revised
\* map: those of its list when it ended with its store.update, else none
ChargesStored(r) ==
    IF requests[r].pc # "done" THEN 0
    ELSE SumOver([k \in 1..Len(requests[r].paragraphIds) |->
                     estimateRewritePoints(
                         requests[r].session.paragraphs[
                             FindParagraph(requests[r].session.paragraphs, requests[r].paragraphIds[k])].text)],
                 Len(requests[r].paragraphIds))

\* C28: for every rewrite request (without the admin secret) that has ended,
\* the points deducted from the account on balance are the charges of exactly
\* the paragraphs whose rewritten text it stored in the revised map
C28_NetIsStored ==
    \A r \in 1..MaxRequests :
        (requests[r].kind = "rewrite" /\ ~requests[r].isAdmin /\ requests[r].pc \in {"done", "failed"})
            => NetDeducted(r) = ChargesStored(r)

\* a rewrite that failed at its second paragraph: the first one is charged
\* and rewritten, and nothing is stored
C28_ChargedNotStored ==
    \E r \in 1..MaxRequests :
        /\ requests[r].kind = "rewrite" /\ requests[r].pc = "failed"
        /\ requests[r].details # <<>>
        /\ NetDeducted(r) > 0
        /\ sessions[requests[r].sessionId].revised = <<>>

C29_Step ==
    \A id \in SessionIds :
        /\ sessions[id].reportBefore # None =>
              /\ sessions'[id].originalDocx = sessions[id].originalDocx
              /\ sessions'[id].paragraphs = sessions[id].paragraphs
              /\ sessions'[id].reportBefore = sessions[id].reportBefore
        /\ \A r \in 1..MaxRequests :
              (Acts(r) /\ requests'[r].kind = "export" /\ requests'[r].sessionId = id) =>
                  /\ sessions'[id].revised = sessions[id].revised
                  /\ sessions'[id].revision = sessions[id].revision

C29_ExportOriginal ==
    \A r \in 1..MaxRequests :
        (requests[r].kind = "export" /\ requests[r].pc = "done" /\ requests[r].session.revised = <<>>)
            => requests[r].response = Some(requests[r].session.originalDocx)

\* C29: once the upload of a session is complete, no step of a rewrite,
\* recheck, chat, chat apply or export request changes its originalDocx, its
\* paragraphs or its reportBefore; a step of an export changes neither the
\* revised map nor the revision; and an export of a session whose revised map
\* is empty returns originalDocx
C29_UploadKept == []C29_ExportOriginal /\ [][C29_Step]_vars

\* an export that built and cached the revised document after a rewrite, and
\* an export that returned originalDocx before it
C29_Witness ==
    \E r1, r2, r3 \in 1..MaxRequests :
        /\ requests[r1].kind = "export" /\ requests[r1].pc = "done"
        /\ requests[r1].response = Some(requests[r1].session.originalDocx)
        /\ Writer(r2)
        /\ requests[r3].kind = "export" /\ requests[r3].pc = "done"
        /\ requests[r3].response # Some(requests[r3].session.originalDocx)
        /\ sessions[requests[r3].sessionId].revisedDocx = requests[r3].response
        /\ sessions[requests[r3].sessionId].revised # <<>>
====
